---- MODULE Spec2Model ----
(***************************************************************************)
(* A model of the pseudonymisation core: the mapping store                 *)
(* (scripts/alias_manager.py, class AliasManager) and the redaction engine *)
(* (scripts/text_redactor.py, class TextRedactor).                         *)
(*                                                                         *)
(* A Python str is modelled as a sequence of one-character strings, so     *)
(* that lower(), strip(), split(), join() and the regular expressions are  *)
(* computed character by character.  An entity is a record with the keys   *)
(* of the dict the code builds; its "added" timestamp is the wall clock    *)
(* and is left out.  The variable last records the call being observed:    *)
(* its name, its arguments, the state before it and what it returned.      *)
(***************************************************************************)
EXTENDS Integers, Sequences, FiniteSets, TLC

VARIABLES
    entities,        \* AliasManager.mapping['entities']
    mapping,         \* TextRedactor.mapping['entities']
    redaction_log,   \* TextRedactor.redaction_log
    random_counter,  \* TextRedactor._random_counter
    mapping_file,    \* AliasManager.mapping_file
    updated,         \* AliasManager.mapping['updated']
    files,           \* the mapping files on disk
    clock,           \* datetime.now()
    callers,         \* the processes running the add command
    last             \* the call being observed

vars == <<entities, mapping, redaction_log, random_counter, mapping_file,
          updated, files, clock, callers, last>>

\* The state of the TextRedactor.
redactor == <<mapping, redaction_log, random_counter>>

\* What persistence adds to the state: the manager's file and timestamp,
\* the disk, the clock and the processes of the command line.
persistence == <<mapping_file, updated, files, clock, callers>>

----------------------------------------------------------------------------
(* Bounds of the model.                                                    *)

\* The largest number of entities a store is grown to.
MaxEntities == 2

\* The longest text handed to the redaction engine.
MaxText == 5

\* The longest redaction log a redaction is started with.
MaxLog == 1

----------------------------------------------------------------------------
(* Strings.                                                                *)

\* The letters, lower case and upper case in the same order.
LowerLetters ==
    <<"a", "b", "c", "d", "e", "f", "g", "h", "i", "j", "k", "l", "m",
      "n", "o", "p", "q", "r", "s", "t", "u", "v", "w", "x", "y", "z">>
UpperLetters ==
    <<"A", "B", "C", "D", "E", "F", "G", "H", "I", "J", "K", "L", "M",
      "N", "O", "P", "Q", "R", "S", "T", "U", "V", "W", "X", "Y", "Z">>
Letters ==
    {LowerLetters[k] : k \in 1..Len(LowerLetters)}
    \cup {UpperLetters[k] : k \in 1..Len(UpperLetters)}

\* str.lower() on one character.
LowerChar(c) ==
    IF \E k \in 1..Len(UpperLetters) : UpperLetters[k] = c
    THEN LowerLetters[CHOOSE k \in 1..Len(UpperLetters) : UpperLetters[k] = c]
    ELSE c

\* str.lower()
Lower(s) == [i \in 1..Len(s) |-> LowerChar(s[i])]

\* str.upper() on one character.
UpperChar(c) ==
    IF \E k \in 1..Len(LowerLetters) : LowerLetters[k] = c
    THEN UpperLetters[CHOOSE k \in 1..Len(LowerLetters) : LowerLetters[k] = c]
    ELSE c

\* str.upper()
Upper(s) == [i \in 1..Len(s) |-> UpperChar(s[i])]

\* The concatenation of the strings of a list, from the i-th on.
RECURSIVE Flatten(_, _)
Flatten(pieces, i) ==
    IF i > Len(pieces) THEN <<>> ELSE pieces[i] \o Flatten(pieces, i + 1)

\* An optional value: None, or the value wrapped.
None == <<>>
Some(x) == <<x>>

\* The dict of one entity (alias_manager.py 65-72, without "added").
Entity(original, alias, entity_type, variations, notes) ==
    [original |-> original, alias |-> alias, type |-> entity_type,
     variations |-> variations, notes |-> notes]

----------------------------------------------------------------------------
(* AliasManager.                                                           *)

\* _empty_mapping()["entities"]
empty_mapping == <<>>

\* A duplicate check that compares the strings as they are, without lower().
RECURSIVE add_entity_scan_case_sensitive(_, _, _, _)
add_entity_scan_case_sensitive(ents, i, original, alias) ==
    IF i > Len(ents) THEN FALSE
    ELSE IF ents[i].original = original THEN TRUE
    ELSE IF ents[i].alias = alias THEN TRUE
    ELSE add_entity_scan_case_sensitive(ents, i + 1, original, alias)

\* A duplicate check that looks at the originals only.
RECURSIVE add_entity_scan_original_only(_, _, _, _)
add_entity_scan_original_only(ents, i, original, alias) ==
    IF i > Len(ents) THEN FALSE
    ELSE IF Lower(ents[i].original) = Lower(original) THEN TRUE
    ELSE add_entity_scan_original_only(ents, i + 1, original, alias)

\* The duplicate check of add_entity: the loop over the entities, TRUE when
\* it reaches one of its two "return False".
RECURSIVE add_entity_scan(_, _, _, _)
add_entity_scan(ents, i, original, alias) ==
    IF i > Len(ents) THEN FALSE
    ELSE IF Lower(ents[i].original) = Lower(original) THEN TRUE
    ELSE IF Lower(ents[i].alias) = Lower(alias) THEN TRUE
    ELSE add_entity_scan(ents, i + 1, original, alias)

\* add_entity: the store afterwards and the value returned.
add_entity(ents, original, alias, entity_type, variations, notes) ==
    IF add_entity_scan(ents, 1, original, alias)
    THEN [ret |-> FALSE, entities |-> ents]
    ELSE [ret |-> TRUE,
          entities |-> Append(ents, Entity(original, alias, entity_type,
                                           variations, notes))]

\* A scan that, like get_entity, also takes an entity by its variations.
RECURSIVE remove_entity_scan_by_variation(_, _, _)
remove_entity_scan_by_variation(ents, i, original) ==
    IF i > Len(ents) THEN 0
    ELSE IF \/ Lower(ents[i].original) = Lower(original)
            \/ \E k \in 1..Len(ents[i].variations) :
                   Lower(ents[i].variations[k]) = Lower(original)
    THEN i
    ELSE remove_entity_scan_by_variation(ents, i + 1, original)

\* remove_entity: the index of the first entity whose original matches, 0
\* when the loop ends without finding one.
RECURSIVE remove_entity_scan(_, _, _)
remove_entity_scan(ents, i, original) ==
    IF i > Len(ents) THEN 0
    ELSE IF Lower(ents[i].original) = Lower(original) THEN i
    ELSE remove_entity_scan(ents, i + 1, original)

\* del self.mapping['entities'][i]
DeleteAt(s, i) == [k \in 1..(Len(s) - 1) |-> IF k < i THEN s[k] ELSE s[k + 1]]

\* remove_entity
remove_entity(ents, original) ==
    LET i == remove_entity_scan(ents, 1, original)
    IN  IF i = 0 THEN [ret |-> FALSE, entities |-> ents]
        ELSE [ret |-> TRUE, entities |-> DeleteAt(ents, i)]

\* The inner loop of get_entity over one entity's variations.
RECURSIVE variation_scan(_, _, _)
variation_scan(variations, k, original) ==
    IF k > Len(variations) THEN FALSE
    ELSE IF Lower(variations[k]) = Lower(original) THEN TRUE
    ELSE variation_scan(variations, k + 1, original)

\* A lookup that tries every original before any variation.
RECURSIVE get_entity_scan_originals_first(_, _, _)
get_entity_scan_originals_first(ents, i, original) ==
    LET byOriginal == remove_entity_scan(ents, 1, original)
    IN  IF byOriginal # 0 THEN byOriginal
        ELSE IF i > Len(ents) THEN 0
        ELSE IF variation_scan(ents[i].variations, 1, original) THEN i
        ELSE get_entity_scan_originals_first(ents, i + 1, original)

\* get_entity: the index of the entity returned, 0 for None.
RECURSIVE get_entity_scan(_, _, _)
get_entity_scan(ents, i, original) ==
    IF i > Len(ents) THEN 0
    ELSE IF Lower(ents[i].original) = Lower(original) THEN i
    ELSE IF variation_scan(ents[i].variations, 1, original) THEN i
    ELSE get_entity_scan(ents, i + 1, original)

get_entity(ents, original) == get_entity_scan(ents, 1, original)

\* get_alias
get_alias(ents, original) ==
    LET i == get_entity(ents, original)
    IN  IF i = 0 THEN None ELSE Some(ents[i].alias)

\* update_entity: kwargs gives, for each key the caller may pass, None (not
\* passed) or Some(value); only the keys in allowed_fields are applied.
allowed_fields == {"alias", "type", "variations", "notes"}

\* An update that applies every supplied field.
Updated_any_field(entity, kwargs) ==
    [f \in DOMAIN entity |->
        IF f \in DOMAIN kwargs /\ kwargs[f] # None
        THEN kwargs[f][1] ELSE entity[f]]

Updated(entity, kwargs) ==
    [f \in DOMAIN entity |->
        IF f \in allowed_fields /\ f \in DOMAIN kwargs /\ kwargs[f] # None
        THEN kwargs[f][1] ELSE entity[f]]

update_entity(ents, original, kwargs) ==
    LET i == get_entity(ents, original)
    IN  IF i = 0 THEN [ret |-> FALSE, entities |-> ents]
        ELSE [ret |-> TRUE,
              entities |-> [ents EXCEPT ![i] = Updated(ents[i], kwargs)]]

\* variation not in entity['variations']: list membership, case-sensitive.
InList(x, list) == \E k \in 1..Len(list) : list[k] = x

\* add_variation without the test for the variation being there already.
add_variation_always_appends(ents, original, variation) ==
    LET i == get_entity(ents, original)
    IN  IF i = 0 THEN [ret |-> FALSE, entities |-> ents]
        ELSE [ret |-> TRUE,
              entities |-> [ents EXCEPT ![i].variations = Append(@, variation)]]

\* add_variation
add_variation(ents, original, variation) ==
    LET i == get_entity(ents, original)
    IN  IF i = 0 THEN [ret |-> FALSE, entities |-> ents]
        ELSE IF InList(variation, ents[i].variations)
        THEN [ret |-> TRUE, entities |-> ents]
        ELSE [ret |-> TRUE,
              entities |-> [ents EXCEPT ![i].variations = Append(@, variation)]]

\* A merge that removes the existing entity before it looks at the strategy.
merge_step_removes_first(ents, entity, conflict_strategy, results) ==
    LET existing == get_entity(ents, entity.original)
        removed == remove_entity(ents, entity.original)
        replaced == add_entity(removed.entities, entity.original,
                               entity.alias, entity.type, entity.variations,
                               entity.notes)
    IN  IF existing # 0
        THEN IF conflict_strategy = "overwrite"
             THEN [entities |-> replaced.entities,
                   ret |-> [results EXCEPT !.overwritten = @ + 1]]
             ELSE [entities |-> removed.entities,
                   ret |-> [results EXCEPT !.skipped = @ + 1]]
        ELSE [entities |-> add_entity(ents, entity.original, entity.alias,
                                      entity.type, entity.variations,
                                      entity.notes).entities,
              ret |-> [results EXCEPT !.added = @ + 1]]

\* The body of merge's loop for one incoming entity: the store and the
\* counters after it.  What add_entity and remove_entity return is dropped,
\* as in the code.
merge_step(ents, entity, conflict_strategy, results) ==
    LET existing == get_entity(ents, entity.original)
        removed == remove_entity(ents, entity.original)
        replaced == add_entity(removed.entities, entity.original,
                               entity.alias, entity.type, entity.variations,
                               entity.notes)
    IN  IF existing # 0
        THEN IF conflict_strategy = "overwrite"
             THEN [entities |-> replaced.entities,
                   ret |-> [results EXCEPT !.overwritten = @ + 1]]
             ELSE [entities |-> ents,
                   ret |-> [results EXCEPT !.skipped = @ + 1]]
        ELSE [entities |-> add_entity(ents, entity.original, entity.alias,
                                      entity.type, entity.variations,
                                      entity.notes).entities,
              ret |-> [results EXCEPT !.added = @ + 1]]

\* merge's loop over the other mapping's entities.  trace[k] is the store
\* and the counters after the k-th incoming entity.
RECURSIVE merge_loop(_, _, _, _, _, _)
merge_loop(ents, other, k, conflict_strategy, results, trace) ==
    IF k > Len(other)
    THEN [ret |-> results, entities |-> ents, trace |-> trace]
    ELSE
      LET step == merge_step(ents, other[k], conflict_strategy, results)
      IN  merge_loop(step.entities, other, k + 1, conflict_strategy,
                     step.ret, Append(trace, step))

\* merge
merge(ents, other, conflict_strategy) ==
    merge_loop(ents, other, 1, conflict_strategy,
               [added |-> 0, skipped |-> 0, overwritten |-> 0], <<>>)

----------------------------------------------------------------------------
(* The tabular form.                                                       *)

\* The characters str.strip() removes.
IsSpace(c) == c \in {" ", "\t", "\n", "\r"}

\* str.strip()
RECURSIVE LStrip(_)
LStrip(s) == IF s # <<>> /\ IsSpace(Head(s)) THEN LStrip(Tail(s)) ELSE s

RECURSIVE RStrip(_)
RStrip(s) ==
    IF s # <<>> /\ IsSpace(s[Len(s)]) THEN RStrip(SubSeq(s, 1, Len(s) - 1))
    ELSE s

Strip(s) == RStrip(LStrip(s))

\* str.split(';'): the list of the pieces between the semicolons.
RECURSIVE SplitFrom(_, _, _)
SplitFrom(s, i, piece) ==
    IF i > Len(s) THEN <<piece>>
    ELSE IF s[i] = ";" THEN <<piece>> \o SplitFrom(s, i + 1, <<>>)
    ELSE SplitFrom(s, i + 1, Append(piece, s[i]))

Split(s) == SplitFrom(s, 1, <<>>)

\* '; '.join(list)
RECURSIVE Join(_)
Join(list) ==
    IF list = <<>> THEN <<>>
    ELSE IF Len(list) = 1 THEN list[1]
    ELSE list[1] \o <<";", " ">> \o Join(Tail(list))

\* [v.strip() for v in pieces if v.strip()]
RECURSIVE StripNonEmpty(_)
StripNonEmpty(pieces) ==
    IF pieces = <<>> THEN <<>>
    ELSE IF Strip(Head(pieces)) # <<>>
    THEN <<Strip(Head(pieces))>> \o StripNonEmpty(Tail(pieces))
    ELSE StripNonEmpty(Tail(pieces))

\* Line 177 of import_csv.
parse_variations(field) == StripNonEmpty(Split(field))

\* export_csv: the rows handed to csv.writer after the header row, one per
\* entity, each the list of its five fields.
export_csv_rows(ents) ==
    [i \in 1..Len(ents) |->
        <<ents[i].original, ents[i].alias, ents[i].type,
          Join(ents[i].variations), ents[i].notes>>]

\* csv.writer, excel dialect, QUOTE_MINIMAL: a field is quoted when it holds
\* the delimiter, the quote character or a character of the line
\* terminator, and its quote characters are doubled.
NeedsQuotes(f) == \E i \in 1..Len(f) : f[i] \in {",", "\"", "\r", "\n"}

RECURSIVE DoubleQuotes(_)
DoubleQuotes(f) ==
    IF f = <<>> THEN <<>>
    ELSE (IF Head(f) = "\"" THEN <<"\"", "\"">> ELSE <<Head(f)>>)
         \o DoubleQuotes(Tail(f))

WriteField(f) ==
    IF NeedsQuotes(f) THEN <<"\"">> \o DoubleQuotes(f) \o <<"\"">> ELSE f

\* writer.writerow: the fields joined by commas, then "\r\n".
RECURSIVE WriteFields(_)
WriteFields(fields) ==
    IF Len(fields) = 1 THEN WriteField(fields[1])
    ELSE WriteField(fields[1]) \o <<",">> \o WriteFields(Tail(fields))

writerow(fields) == WriteFields(fields) \o <<"\r", "\n">>

\* The text of the file export_csv writes (opened with newline='', so it
\* holds these characters unchanged), without its header line.
RECURSIVE WriteRows(_)
WriteRows(rows) ==
    IF rows = <<>> THEN <<>> ELSE writerow(Head(rows)) \o WriteRows(Tail(rows))

export_csv(ents) == WriteRows(export_csv_rows(ents))

\* open(path, 'r') reads with universal newlines: "\r\n" and a lone "\r"
\* arrive as "\n", inside a quoted field too.
UniversalNewlines(s) ==
    LET marked == [i \in 1..Len(s) |->
                      IF s[i] # "\r" THEN s[i]
                      ELSE IF i < Len(s) /\ s[i + 1] = "\n" THEN "CRLF"
                      ELSE "\n"]
        Kept(c) == c # "CRLF"
    IN  SelectSeq(marked, Kept)

\* Iterating over the file gives its lines, each with its "\n"; the last
\* one may lack it.
LineEnds(text) ==
    {i \in 1..Len(text) : text[i] = "\n" \/ i = Len(text)}

NumLines(text) == Cardinality(LineEnds(text))

LineEnd(text, k) ==
    CHOOSE e \in LineEnds(text) :
        Cardinality({f \in LineEnds(text) : f <= e}) = k

Line(text, k) ==
    SubSeq(text, IF k = 1 THEN 1 ELSE LineEnd(text, k - 1) + 1,
           LineEnd(text, k))

\* csv.reader's parser: st is its state, the field being read, the fields
\* of the record being read and the records read.  EOL is what the parser
\* is fed at the end of each line.
EOL == "EOL"

ParserStart ==
    [state |-> "START_RECORD", field |-> <<>>, fields |-> <<>>,
     records |-> <<>>]

SaveField(st, next) ==
    [st EXCEPT !.fields = Append(@, st.field), !.field = <<>>,
               !.state = next]

AddChar(st, c, next) == [st EXCEPT !.field = Append(@, c), !.state = next]

AfterNewline(c) == IF c = EOL THEN "START_RECORD" ELSE "EAT_CRNL"

StartField(st, c) ==
    IF c \in {"\n", "\r", EOL} THEN SaveField(st, AfterNewline(c))
    ELSE IF c = "\"" THEN [st EXCEPT !.state = "IN_QUOTED_FIELD"]
    ELSE IF c = "," THEN SaveField(st, "START_FIELD")
    ELSE AddChar(st, c, "IN_FIELD")

ParseChar(st, c) ==
    CASE st.state = "START_RECORD" ->
            IF c = EOL THEN st
            ELSE IF c \in {"\n", "\r"} THEN [st EXCEPT !.state = "EAT_CRNL"]
            ELSE StartField(st, c)
      [] st.state = "START_FIELD" -> StartField(st, c)
      [] st.state = "IN_FIELD" ->
            IF c \in {"\n", "\r", EOL} THEN SaveField(st, AfterNewline(c))
            ELSE IF c = "," THEN SaveField(st, "START_FIELD")
            ELSE AddChar(st, c, "IN_FIELD")
      [] st.state = "IN_QUOTED_FIELD" ->
            IF c = EOL THEN st
            ELSE IF c = "\"" THEN [st EXCEPT !.state = "QUOTE_IN_QUOTED_FIELD"]
            ELSE AddChar(st, c, "IN_QUOTED_FIELD")
      [] st.state = "QUOTE_IN_QUOTED_FIELD" ->
            IF c = "\"" THEN AddChar(st, c, "IN_QUOTED_FIELD")
            ELSE IF c = "," THEN SaveField(st, "START_FIELD")
            ELSE IF c \in {"\n", "\r", EOL}
            THEN SaveField(st, AfterNewline(c))
            ELSE AddChar(st, c, "IN_FIELD")
      [] st.state = "EAT_CRNL" ->
            IF c \in {"\n", "\r"} THEN st
            ELSE IF c = EOL THEN [st EXCEPT !.state = "START_RECORD"]
            ELSE [st EXCEPT !.state = "ERROR"]
      [] OTHER -> st

\* The parser fed the characters of one line.
RECURSIVE ParseLine(_, _, _)
ParseLine(line, i, st) ==
    IF st.state = "ERROR" \/ i > Len(line) THEN st
    ELSE ParseLine(line, i + 1, ParseChar(st, line[i]))

\* The end of a line: the record is complete when the parser is back at
\* START_RECORD, and goes on into the next line otherwise.
EndLine(st) ==
    LET st1 == ParseChar(st, EOL)
    IN  IF st1.state = "START_RECORD"
        THEN [st1 EXCEPT !.records = Append(@, st1.fields), !.fields = <<>>]
        ELSE st1

\* The end of the file inside a record: what was read is the last record.
EndFile(st) ==
    IF st.state \in {"START_RECORD", "ERROR"} THEN st
    ELSE LET st1 == SaveField(st, "START_RECORD")
         IN  [st1 EXCEPT !.records = Append(@, st1.fields), !.fields = <<>>]

\* csv.reader over the lines of the text.  The parser's error ends the
\* reading.
RECURSIVE csv_reader_lines(_, _, _)
csv_reader_lines(text, k, st) ==
    IF st.state = "ERROR" \/ k > NumLines(text) THEN EndFile(st)
    ELSE csv_reader_lines(text, k + 1,
                          EndLine(ParseLine(Line(text, k), 1, st)))

csv_reader(text) == csv_reader_lines(text, 1, ParserStart).records

\* csv.DictReader: the header names the columns Original, Alias, Type,
\* Variations, Notes; a record without fields is skipped and a column the
\* record is too short for is None.
Column(fields, k) == IF k <= Len(fields) THEN Some(fields[k]) ELSE None

RECURSIVE DictRows(_)
DictRows(records) ==
    IF records = <<>> THEN <<>>
    ELSE IF Head(records) = <<>> THEN DictRows(Tail(records))
    ELSE << [Original |-> Column(Head(records), 1),
             Alias |-> Column(Head(records), 2),
             Type |-> Column(Head(records), 3),
             Variations |-> Column(Head(records), 4),
             Notes |-> Column(Head(records), 5)] >>
         \o DictRows(Tail(records))

\* The rows import_csv iterates over for a file with this text.
DictReader(text) == DictRows(csv_reader(UniversalNewlines(text)))

\* The body of import_csv's loop for one row.  A field is None where the
\* row is shorter than the header (DictReader's restval); None.split raises,
\* and the except clause records the message.
import_csv_row(ents, row, overwrite, results) ==
    IF row.Variations = None
    THEN [entities |-> ents,
          ret |-> [results EXCEPT !.errors = Append(@, "AttributeError")]]
    ELSE
      LET variations == parse_variations(row.Variations[1])
          ents1 == IF overwrite
                   THEN remove_entity(ents, row.Original[1]).entities
                   ELSE ents
          r == add_entity(ents1, row.Original[1], row.Alias[1], row.Type[1],
                          variations, row.Notes[1])
      IN  [entities |-> r.entities,
           ret |-> IF r.ret THEN [results EXCEPT !.added = @ + 1]
                   ELSE [results EXCEPT !.skipped = @ + 1]]

\* A loop that ends at the first row that fails.
RECURSIVE import_csv_loop_stops_at_error(_, _, _, _, _)
import_csv_loop_stops_at_error(ents, rows, k, overwrite, results) ==
    IF k > Len(rows) THEN [ret |-> results, entities |-> ents]
    ELSE
      LET step == import_csv_row(ents, rows[k], overwrite, results)
      IN  IF Len(step.ret.errors) > Len(results.errors)
          THEN [ret |-> step.ret, entities |-> step.entities]
          ELSE import_csv_loop_stops_at_error(step.entities, rows, k + 1,
                                              overwrite, step.ret)

\* import_csv's loop over the rows.
RECURSIVE import_csv_loop(_, _, _, _, _)
import_csv_loop(ents, rows, k, overwrite, results) ==
    IF k > Len(rows) THEN [ret |-> results, entities |-> ents]
    ELSE
      LET step == import_csv_row(ents, rows[k], overwrite, results)
      IN  import_csv_loop(step.entities, rows, k + 1, overwrite, step.ret)

\* import_csv
import_csv(ents, rows, overwrite) ==
    import_csv_loop(ents, rows, 1, overwrite,
                    [added |-> 0, skipped |-> 0, errors |-> <<>>])

----------------------------------------------------------------------------
(* Persistence of the mapping document.                                    *)

\* The mapping files of the model.
Paths == {"m.json", "n.json"}

\* The mapping document: its entities and its 'updated' timestamp; version
\* and created play no part and are left out.
Document(timestamp, ents) == [updated |-> timestamp, entities |-> ents]

\* What a path holds: nothing, a file opened for writing into which the
\* document has not been dumped yet, or a document.
Absent == [exists |-> FALSE]
Truncated == [exists |-> TRUE, json |-> FALSE]
Written(document) == [exists |-> TRUE, json |-> TRUE, document |-> document]

NoFiles == [p \in Paths |-> Absent]

\* A manager constructed without a mapping file, and nothing on disk.
Unsaved ==
    /\ mapping_file = None
    /\ updated = 0
    /\ files = NoFiles
    /\ clock = 0
    /\ callers = <<>>

\* AliasManager(path): the document of the file when the path is given and
\* the file exists, a new empty document otherwise; json.load raises on a
\* file that holds no whole document.
construct(disk, path, now) ==
    IF path # None /\ disk[path[1]].exists
    THEN IF disk[path[1]].json
         THEN [raised |-> FALSE, mapping_file |-> path,
               mapping |-> disk[path[1]].document]
         ELSE [raised |-> TRUE, mapping_file |-> path,
               mapping |-> Document(now, empty_mapping)]
    ELSE [raised |-> FALSE, mapping_file |-> path,
          mapping |-> Document(now, empty_mapping)]

\* open(path, 'w')
open_w(disk, path) == [disk EXCEPT ![path] = Truncated]

\* A dump that leaves the file as open left it.
json_dump_nothing(disk, path, document) == disk

\* json.dump(self.mapping, f, indent=2), and the file is closed
json_dump(disk, path, document) == [disk EXCEPT ![path] = Written(document)]

\* save that refreshes the timestamp before it looks for a path.
save_refreshes_first(default_path, document, disk, now, path, io_ok) ==
    LET target == IF path # None THEN path ELSE default_path
        refreshed == [document EXCEPT !.updated = now]
    IN  IF target = None
        THEN [ret |-> "ValueError", mapping |-> refreshed, files |-> disk]
        ELSE IF ~io_ok
        THEN [ret |-> "OSError", mapping |-> refreshed, files |-> disk]
        ELSE [ret |-> "None", mapping |-> refreshed,
              files |-> json_dump(open_w(disk, target[1]), target[1],
                                  refreshed)]

\* save(path): what the call returns or raises, the document and the disk
\* afterwards.  io_ok is whether mkdir and open succeed.
save(default_path, document, disk, now, path, io_ok) ==
    LET target == IF path # None THEN path ELSE default_path
        refreshed == [document EXCEPT !.updated = now]
    IN  IF target = None
        THEN [ret |-> "ValueError", mapping |-> document, files |-> disk]
        ELSE IF ~io_ok
        THEN [ret |-> "OSError", mapping |-> refreshed, files |-> disk]
        ELSE [ret |-> "None", mapping |-> refreshed,
              files |-> json_dump(open_w(disk, target[1]), target[1],
                                  refreshed)]

----------------------------------------------------------------------------
(* Inputs of the store's operations.                                       *)

Originals == {<<>>, <<"a">>, <<"A">>, <<"b">>}
Aliases == {<<>>, <<"x">>, <<"X">>, <<"y">>}
Types == {<<"o">>}
VariationLists == {<<>>, << <<"b">> >>}
NotesSet == {<<>>}

\* The entities of an incoming mapping document.
Incoming ==
    {Entity(o, a, <<"o">>, <<>>, <<>>) :
        o \in {<<"a">>, <<"A">>, <<"b">>}, a \in {<<"x">>, <<"X">>, <<"y">>}}

\* Two-entity documents are built from these.
IncomingPair ==
    {Entity(<<"a">>, <<"x">>, <<"o">>, <<>>, <<>>),
     Entity(<<"a">>, <<"y">>, <<"o">>, <<>>, <<>>),
     Entity(<<"b">>, <<"x">>, <<"o">>, << <<"b">> >>, <<>>)}

OtherMappings ==
    {<<>>} \cup {<<e>> : e \in Incoming}
           \cup {<<e1, e2>> : e1 \in IncomingPair, e2 \in IncomingPair}

Strategies == {"skip", "overwrite"}

\* The keyword arguments of update_entity.
Kwargs ==
    [alias : {None, Some(<<"x">>), Some(<<"X">>), Some(<<"y">>)},
     variations : {None}]
    \cup [alias : {None}, variations : {Some(v) : v \in VariationLists}]

\* The rows of an imported file: whole rows, and a row cut short after its
\* second field.
Row(o, a, t, v, n) ==
    [Original |-> Some(o), Alias |-> Some(a), Type |-> t, Variations |-> v,
     Notes |-> n]

CsvRows ==
    {Row(o, a, Some(<<"o">>), Some(v), Some(<<>>)) :
        o \in {<<"a">>, <<"A">>, <<"b">>}, a \in {<<"x">>, <<"y">>},
        v \in {<<>>, <<" ", "b", ";">>}}
    \cup {Row(<<"a">>, <<"x">>, None, None, None)}

CsvPairRows ==
    {Row(<<"a">>, <<"x">>, Some(<<"o">>), Some(<<>>), Some(<<>>)),
     Row(<<"a">>, <<"y">>, Some(<<"o">>), Some(<<>>), Some(<<>>)),
     Row(<<"b">>, <<"x">>, None, None, None)}

CsvFiles ==
    {<<>>} \cup {<<r>> : r \in CsvRows}
           \cup {<<r1, r2>> : r1 \in CsvPairRows, r2 \in CsvPairRows}

----------------------------------------------------------------------------
(* The store's operations as actions.  A call is taken when no call is     *)
(* being observed; Return is the caller taking the result.                 *)

Idle == [op |-> "idle"]

Init ==
    /\ entities = empty_mapping
    /\ mapping = empty_mapping
    /\ redaction_log = <<>>
    /\ random_counter = <<>>
    /\ last = Idle
    /\ Unsaved

AddEntity ==
    /\ last = Idle
    /\ \E original \in Originals, alias \in Aliases, entity_type \in Types,
          variations \in VariationLists, notes \in NotesSet :
        LET r == add_entity(entities, original, alias, entity_type,
                            variations, notes)
        IN  /\ Len(r.entities) <= MaxEntities
            /\ entities' = r.entities
            /\ last' = [op |-> "add_entity", pre |-> entities, ret |-> r.ret,
                        original |-> original, alias |-> alias,
                        type |-> entity_type, variations |-> variations,
                        notes |-> notes]
    /\ UNCHANGED redactor
    /\ UNCHANGED persistence

RemoveEntity ==
    /\ last = Idle
    /\ \E original \in Originals :
        LET r == remove_entity(entities, original)
        IN  /\ entities' = r.entities
            /\ last' = [op |-> "remove_entity", pre |-> entities,
                        ret |-> r.ret, original |-> original]
    /\ UNCHANGED redactor
    /\ UNCHANGED persistence

GetEntity ==
    /\ last = Idle
    /\ \E original \in Originals :
        /\ last' = [op |-> "get_entity", pre |-> entities,
                    ret |-> get_entity(entities, original),
                    alias |-> get_alias(entities, original),
                    original |-> original]
    /\ UNCHANGED <<entities, redactor>>
    /\ UNCHANGED persistence

UpdateEntity ==
    /\ last = Idle
    /\ \E original \in Originals, kwargs \in Kwargs :
        LET r == update_entity(entities, original, kwargs)
        IN  /\ entities' = r.entities
            /\ last' = [op |-> "update_entity", pre |-> entities,
                        ret |-> r.ret, original |-> original,
                        kwargs |-> kwargs]
    /\ UNCHANGED redactor
    /\ UNCHANGED persistence

AddVariation ==
    /\ last = Idle
    /\ \E original \in Originals, variation \in {<<"b">>} :
        LET r == add_variation(entities, original, variation)
        IN  /\ entities' = r.entities
            /\ last' = [op |-> "add_variation", pre |-> entities,
                        ret |-> r.ret, original |-> original,
                        variation |-> variation]
    /\ UNCHANGED redactor
    /\ UNCHANGED persistence

Merge ==
    /\ last = Idle
    /\ \E other \in OtherMappings, conflict_strategy \in Strategies :
        LET r == merge(entities, other, conflict_strategy)
        IN  /\ Len(r.entities) <= MaxEntities
            /\ entities' = r.entities
            /\ last' = [op |-> "merge", pre |-> entities, ret |-> r.ret,
                        other |-> other,
                        conflict_strategy |-> conflict_strategy,
                        trace |-> r.trace]
    /\ UNCHANGED redactor
    /\ UNCHANGED persistence

ImportCsv ==
    /\ last = Idle
    /\ \E rows \in CsvFiles, overwrite \in BOOLEAN :
        LET r == import_csv(entities, rows, overwrite)
        IN  /\ Len(r.entities) <= MaxEntities
            /\ entities' = r.entities
            /\ last' = [op |-> "import_csv", pre |-> entities, ret |-> r.ret,
                        rows |-> rows, overwrite |-> overwrite]
    /\ UNCHANGED redactor
    /\ UNCHANGED persistence

Return ==
    /\ last # Idle
    /\ last' = Idle
    /\ UNCHANGED <<entities, redactor>>
    /\ UNCHANGED persistence

\* Every operation of the store.
Next ==
    \/ AddEntity
    \/ RemoveEntity
    \/ GetEntity
    \/ UpdateEntity
    \/ AddVariation
    \/ Merge
    \/ ImportCsv
    \/ Return

Spec == Init /\ [][Next]_vars

\* The operations other than update_entity.
NextNoUpdate ==
    \/ AddEntity
    \/ RemoveEntity
    \/ GetEntity
    \/ AddVariation
    \/ Merge
    \/ ImportCsv
    \/ Return

SpecNoUpdate == Init /\ [][NextNoUpdate]_vars

----------------------------------------------------------------------------
(* Export to the tabular form and import into an empty store.              *)

CsvOriginals == {<<"a">>, <<"b">>}
CsvAliases == {<<"x">>, <<"y", ",">>}
CsvTypes == {<<"o">>}
CsvVariationLists ==
    {<<>>, << <<"b">> >>, << <<"b">>, <<"c", " ", "d">> >>,
     << <<" ", "b">> >>, << <<"b", ";", "c">> >>, << <<>> >>}
CsvNotes == {<<>>, <<"\"", "n", "\n">>, <<"n", "\r", "m">>}

AddEntityCsv ==
    /\ last = Idle
    /\ \E notes \in CsvNotes, original \in CsvOriginals,
          alias \in CsvAliases, entity_type \in CsvTypes,
          variations \in CsvVariationLists :
        LET r == add_entity(entities, original, alias, entity_type,
                            variations, notes)
        IN  /\ Len(r.entities) <= MaxEntities
            /\ entities' = r.entities
            /\ last' = [op |-> "add_entity", pre |-> entities, ret |-> r.ret,
                        original |-> original, alias |-> alias,
                        type |-> entity_type, variations |-> variations,
                        notes |-> notes]
    /\ UNCHANGED redactor
    /\ UNCHANGED persistence

\* export_csv(path), then import_csv(path, overwrite) on a new AliasManager.
ExportImportCsv ==
    /\ last = Idle
    /\ \E overwrite \in BOOLEAN :
        LET text == export_csv(entities)
            r == import_csv(empty_mapping, DictReader(text), overwrite)
        IN  last' = [op |-> "export_import", pre |-> entities,
                     text |-> text, ret |-> r.ret, imported |-> r.entities,
                     overwrite |-> overwrite]
    /\ UNCHANGED <<entities, redactor>>
    /\ UNCHANGED persistence

NextCsv ==
    \/ AddEntityCsv
    \/ ExportImportCsv
    \/ Return

SpecCsv == Init /\ [][NextCsv]_vars

----------------------------------------------------------------------------
(* TextRedactor.                                                           *)

\* \w of the regular expressions.
IsWord(c) == c \in Letters \/ c \in {"0", "1", "2", "3", "4", "5", "6", "7", "8", "9", "_"}

\* \b after the i-th character of the text (i = 0: at its start): a word
\* character on exactly one side.
Boundary(text, i) ==
    (i >= 1 /\ IsWord(text[i])) # (i < Len(text) /\ IsWord(text[i + 1]))

\* r'\b' + re.escape(term) + r'\b' matches the text at position i, with
\* re.IGNORECASE unless case_sensitive.
MatchAt(text, term, i, case_sensitive) ==
    /\ i + Len(term) - 1 <= Len(text)
    /\ Boundary(text, i - 1)
    /\ \A k \in 1..Len(term) :
          IF case_sensitive THEN text[i + k - 1] = term[k]
          ELSE LowerChar(text[i + k - 1]) = LowerChar(term[k])
    /\ Boundary(text, i + Len(term) - 1)

\* re.sub that stops after the first match (count=1).
RECURSIVE re_sub_count_1(_, _, _, _, _)
re_sub_count_1(text, term, alias, case_sensitive, i) ==
    IF i > Len(text) THEN [result |-> <<>>, found |-> <<>>]
    ELSE IF MatchAt(text, term, i, case_sensitive)
    THEN [result |-> alias \o SubSeq(text, i + Len(term), Len(text)),
          found |-> <<SubSeq(text, i, i + Len(term) - 1)>>]
    ELSE LET rest == re_sub_count_1(text, term, alias, case_sensitive, i + 1)
         IN  [result |-> <<text[i]>> \o rest.result, found |-> rest.found]

\* re.sub with the replacer of redact_entities: the matches are taken from
\* left to right, each search starting where the last match ended.  result
\* is the new text and found the matched substrings, in order.
RECURSIVE re_sub(_, _, _, _, _)
re_sub(text, term, alias, case_sensitive, i) ==
    IF i > Len(text) THEN [result |-> <<>>, found |-> <<>>]
    ELSE IF MatchAt(text, term, i, case_sensitive)
    THEN LET rest == re_sub(text, term, alias, case_sensitive, i + Len(term))
         IN  [result |-> alias \o rest.result,
              found |-> <<SubSeq(text, i, i + Len(term) - 1)>> \o rest.found]
    ELSE LET rest == re_sub(text, term, alias, case_sensitive, i + 1)
         IN  [result |-> <<text[i]>> \o rest.result, found |-> rest.found]

\* The log entries the replacer appends for the matches of one term.
EntityLogEntries(found, alias, orig_term) ==
    [k \in 1..Len(found) |->
        [type |-> "entity", original |-> found[k], replacement |-> alias,
         mapped_from |-> orig_term]]

\* The inner loop of redact_entities over the terms of one entity.
RECURSIVE redact_terms(_, _, _, _, _, _)
redact_terms(result, log, alias, terms, k, case_sensitive) ==
    IF k > Len(terms) THEN [result |-> result, log |-> log]
    ELSE IF terms[k] = <<>>
    THEN redact_terms(result, log, alias, terms, k + 1, case_sensitive)
    ELSE LET r == re_sub(result, terms[k], alias, case_sensitive, 1)
         IN  redact_terms(r.result,
                          log \o EntityLogEntries(r.found, alias, terms[k]),
                          alias, terms, k + 1, case_sensitive)

\* The outer loop of redact_entities over the entities of the mapping.
RECURSIVE redact_entities_loop(_, _, _, _, _)
redact_entities_loop(result, log, ents, i, case_sensitive) ==
    IF i > Len(ents) THEN [result |-> result, log |-> log]
    ELSE LET r == redact_terms(result, log, ents[i].alias,
                               <<ents[i].original>> \o ents[i].variations,
                               1, case_sensitive)
         IN  redact_entities_loop(r.result, r.log, ents, i + 1,
                                  case_sensitive)

\* redact_entities that starts a new log.
redact_entities_new_log(ents, log, text, case_sensitive) ==
    redact_entities_loop(text, <<>>, ents, 1, case_sensitive)

\* redact_entities: the text returned and the log afterwards.
redact_entities(ents, log, text, case_sensitive) ==
    redact_entities_loop(text, log, ents, 1, case_sensitive)

\* clear_log: the log and the counters afterwards.
clear_log == [log |-> <<>>, counter |-> <<>>]

----------------------------------------------------------------------------
(* Regular expressions of TextRedactor.PATTERNS.                           *)

Digits == {"0", "1", "2", "3", "4", "5", "6", "7", "8", "9"}

\* The character classes \s of the patterns.
SpaceChars == {" ", "\t", "\n", "\r", "\f"}

\* A regular expression is a record: a character class, the assertion \b,
\* a sequence, an alternation or a greedy repetition with max < 0 for no
\* upper limit.
Chars(set) == [op |-> "set", chars |-> set]
Char(c) == Chars({c})
WordBoundary == [op |-> "b"]
Cat(items) == [op |-> "seq", items |-> items]
Alt(items) == [op |-> "alt", items |-> items]
Repeat(item, min, max) == [op |-> "rep", item |-> item, min |-> min, max |-> max]
Optional(item) == Repeat(item, 0, 1)

\* The positions at which a match of r that starts at position i of the
\* text can end (one past its last character), in the order in which the
\* backtracking matcher of re tries them.
RECURSIVE Ends(_, _, _)
RECURSIVE EndsFrom(_, _, _, _)
RECURSIVE SeqEnds(_, _, _, _)
RECURSIVE AltEnds(_, _, _, _)
RECURSIVE RepEnds(_, _, _, _, _)
RECURSIVE RepMore(_, _, _, _, _, _)

\* The ends of r from each of the starts, in order.
EndsFrom(r, text, starts, k) ==
    IF k > Len(starts) THEN <<>>
    ELSE Ends(r, text, starts[k]) \o EndsFrom(r, text, starts, k + 1)

SeqEnds(items, k, text, starts) ==
    IF k > Len(items) \/ starts = <<>> THEN starts
    ELSE SeqEnds(items, k + 1, text, EndsFrom(items[k], text, starts, 1))

AltEnds(items, k, text, i) ==
    IF k > Len(items) THEN <<>>
    ELSE Ends(items[k], text, i) \o AltEnds(items, k + 1, text, i)

\* One more repetition from each of the ends of the item, in order.
RepMore(item, min, max, text, ends, k) ==
    IF k > Len(ends) THEN <<>>
    ELSE RepEnds(item, min, max, text, ends[k])
         \o RepMore(item, min, max, text, ends, k + 1)

\* Greedy: one more repetition is tried before stopping here.
RepEnds(item, min, max, text, i) ==
    (IF max = 0 THEN <<>>
     ELSE RepMore(item, min - 1, max - 1, text,
                  SelectSeq(Ends(item, text, i), LAMBDA e : e > i), 1))
    \o (IF min <= 0 THEN <<i>> ELSE <<>>)

Ends(r, text, i) ==
    CASE r.op = "set" ->
            IF i <= Len(text) /\ text[i] \in r.chars THEN <<i + 1>> ELSE <<>>
      [] r.op = "b" -> IF Boundary(text, i - 1) THEN <<i>> ELSE <<>>
      [] r.op = "seq" -> SeqEnds(r.items, 1, text, <<i>>)
      [] r.op = "alt" -> AltEnds(r.items, 1, text, i)
      [] r.op = "rep" -> RepEnds(r.item, r.min, r.max, text, i)

\* re.finditer: the non-overlapping matches of r in the text from position
\* i on, from left to right, each with its start and its end.  No pattern
\* of PATTERNS matches the empty string.
RECURSIVE finditer(_, _, _)
finditer(r, text, i) ==
    IF i > Len(text) THEN <<>>
    ELSE LET ends == Ends(r, text, i)
         IN  IF ends # <<>> /\ ends[1] > i
             THEN <<[start |-> i, end |-> ends[1]]>>
                  \o finditer(r, text, ends[1])
             ELSE finditer(r, text, i + 1)

\* match.group(0)
Group0(text, m) == SubSeq(text, m.start, m.end - 1)

\* re.findall for a pattern without capturing groups.
findall(r, text) ==
    LET ms == finditer(r, text, 1)
    IN  [k \in 1..Len(ms) |-> Group0(text, ms[k])]

Alnum == Letters \cup Digits
Digit == Chars(Digits)
Sep == Chars({"-", ".", " ", "\t", "\n", "\r", "\f"})
DashOrSpace == Chars({"-"} \cup SpaceChars)
DateSep == Chars({"/", ".", "-"})

\* 0?[1-9]|1[0-2]
MonthRe ==
    Alt(<<Cat(<<Optional(Char("0")), Chars(Digits \ {"0"})>>),
          Cat(<<Char("1"), Chars({"0", "1", "2"})>>)>>)

\* 0?[1-9]|[12]\d|3[01]
DayRe ==
    Alt(<<Cat(<<Optional(Char("0")), Chars(Digits \ {"0"})>>),
          Cat(<<Chars({"1", "2"}), Digit>>),
          Cat(<<Char("3"), Chars({"0", "1"})>>)>>)

\* \d{2}|\d{4}
YearRe == Alt(<<Repeat(Digit, 2, 2), Repeat(Digit, 4, 4)>>)

\* TextRedactor.PATTERNS, in the order of the dict.
PATTERNS ==
    << [name |-> <<"e", "m", "a", "i", "l">>,
        re |-> Cat(<<WordBoundary,
                     Repeat(Chars(Alnum \cup {".", "_", "%", "+", "-"}),
                            1, -1),
                     Char("@"),
                     Repeat(Chars(Alnum \cup {".", "-"}), 1, -1),
                     Char("."),
                     Repeat(Chars(Letters \cup {"|"}), 2, -1),
                     WordBoundary>>)],
       [name |-> <<"p", "h", "o", "n", "e", "_", "u", "s">>,
        re |-> Cat(<<WordBoundary,
                     Optional(Cat(<<Optional(Char("+")), Char("1"),
                                    Optional(Sep)>>)),
                     Optional(Char("(")), Repeat(Digit, 3, 3),
                     Optional(Char(")")), Optional(Sep),
                     Repeat(Digit, 3, 3), Optional(Sep),
                     Repeat(Digit, 4, 4), WordBoundary>>)],
       [name |-> <<"p", "h", "o", "n", "e", "_", "i", "n", "t", "l">>,
        re |-> Cat(<<WordBoundary, Optional(Char("+")),
                     Chars(Digits \ {"0"}), Repeat(Digit, 1, 14),
                     WordBoundary>>)],
       [name |-> <<"s", "s", "n">>,
        re |-> Cat(<<WordBoundary, Repeat(Digit, 3, 3),
                     Optional(DashOrSpace), Repeat(Digit, 2, 2),
                     Optional(DashOrSpace), Repeat(Digit, 4, 4),
                     WordBoundary>>)],
       [name |-> <<"c", "r", "e", "d", "i", "t", "_", "c", "a", "r", "d">>,
        re |-> Cat(<<WordBoundary,
                     Repeat(Cat(<<Repeat(Digit, 4, 4),
                                  Optional(DashOrSpace)>>), 3, 3),
                     Repeat(Digit, 4, 4), WordBoundary>>)],
       [name |-> <<"i", "p", "_", "a", "d", "d", "r", "e", "s", "s">>,
        re |-> Cat(<<WordBoundary,
                     Repeat(Cat(<<Repeat(Digit, 1, 3), Char(".")>>), 3, 3),
                     Repeat(Digit, 1, 3), WordBoundary>>)],
       [name |-> <<"d", "a", "t", "e", "_", "m", "d", "y">>,
        re |-> Cat(<<WordBoundary, MonthRe, DateSep, DayRe, DateSep, YearRe,
                     WordBoundary>>)],
       [name |-> <<"d", "a", "t", "e", "_", "d", "m", "y">>,
        re |-> Cat(<<WordBoundary, DayRe, DateSep, MonthRe, DateSep, YearRe,
                     WordBoundary>>)] >>

\* The names of the patterns.
PatternNames == {PATTERNS[k].name : k \in 1..Len(PATTERNS)}

\* pattern_name in self.PATTERNS
InPatterns(pattern_name) == pattern_name \in PatternNames

\* self.PATTERNS[pattern_name]
PatternOf(pattern_name) ==
    PATTERNS[CHOOSE k \in 1..Len(PATTERNS) :
                PATTERNS[k].name = pattern_name].re

----------------------------------------------------------------------------
(* The redaction of a text with the entities of a loaded mapping.         *)

\* The entities of the mapping files the redactor is constructed with.
RedactEntitiesSet ==
    {e \in {Entity(o, a, <<"o">>, v, <<>>) :
                o \in {<<>>, <<"a">>, <<"A">>, <<"a", " ", "a">>, <<"b">>},
                a \in {<<"x">>, <<"b">>},
                v \in {<<>>, << <<"b">> >>}} :
        e.alias # e.original}

MappingFiles ==
    {<<>>} \cup {<<e>> : e \in RedactEntitiesSet}
           \cup {<<e, Entity(<<"b">>, <<"y">>, <<"o">>, <<>>, <<>>)>> :
                    e \in RedactEntitiesSet}

TextChars == {"a", "b", " "}

Texts == UNION {[1..n -> TextChars] : n \in 0..MaxText}

\* TextRedactor(mapping_file)
InitRedact ==
    /\ entities = empty_mapping
    /\ mapping \in MappingFiles
    /\ redaction_log = <<>>
    /\ random_counter = <<>>
    /\ last = Idle
    /\ Unsaved

RedactEntities ==
    /\ last = Idle
    /\ Len(redaction_log) <= MaxLog
    /\ \E text \in Texts, case_sensitive \in BOOLEAN :
        LET r == redact_entities(mapping, redaction_log, text, case_sensitive)
        IN  /\ redaction_log' = r.log
            /\ last' = [op |-> "redact_entities", text |-> text,
                        case_sensitive |-> case_sensitive,
                        log |-> redaction_log, ret |-> r.result]
    /\ UNCHANGED <<entities, mapping, random_counter>>
    /\ UNCHANGED persistence

\* clear_log
ClearLog ==
    /\ last = Idle
    /\ redaction_log # <<>>
    /\ redaction_log' = clear_log.log
    /\ random_counter' = clear_log.counter
    /\ last' = [op |-> "clear_log"]
    /\ UNCHANGED <<entities, mapping>>
    /\ UNCHANGED persistence

NextRedact ==
    \/ RedactEntities
    \/ ClearLog
    \/ Return

SpecRedact == InitRedact /\ [][NextRedact]_vars

----------------------------------------------------------------------------
(* TextRedactor.redact_entities with mapping files of two entities in      *)
(* which the alias of one may be the original of the other.                *)

ChainEntities ==
    {e \in {Entity(o, a, <<"o">>, <<>>, <<>>) :
                o \in {<<"a">>, <<"b">>},
                a \in {<<"x">>, <<"a">>, <<"b">>}} :
        e.alias # e.original}

\* The originals of a file are distinct, and so are its aliases.
ChainMappings ==
    {m \in [1..2 -> ChainEntities] :
        m[1].original # m[2].original /\ m[1].alias # m[2].alias}

\* TextRedactor(mapping_file)
InitChain ==
    /\ entities = empty_mapping
    /\ mapping \in ChainMappings
    /\ redaction_log = <<>>
    /\ random_counter = <<>>
    /\ last = Idle
    /\ Unsaved

SpecChain == InitChain /\ [][NextRedact]_vars

----------------------------------------------------------------------------
(* TextRedactor: redaction by pattern.                                     *)

\* The decimal digits of a natural number.
RECURSIVE Decimal(_)
Decimal(n) ==
    LET d == <<"0", "1", "2", "3", "4", "5", "6", "7", "8", "9">>[(n % 10) + 1]
    IN  IF n < 10 THEN <<d>> ELSE Append(Decimal(n \div 10), d)

\* f"{n:03d}": the decimal digits, padded with zeros to three.
Format03d(n) ==
    LET d == Decimal(n)
    IN  IF Len(d) >= 3 THEN d ELSE [k \in 1..(3 - Len(d)) |-> "0"] \o d

\* self._random_counter[pattern_type], 0 when the key is absent.
CounterOf(counter, pattern_type) ==
    IF pattern_type \in DOMAIN counter THEN counter[pattern_type] ELSE 0

\* _get_pattern_replacement that does not increment the counter.
get_pattern_replacement_no_increment(counter, pattern_type, random_mode) ==
    IF random_mode
    THEN [ret |-> <<"[">> \o Upper(pattern_type) \o <<"-">>
                  \o Format03d(CounterOf(counter, pattern_type) + 1)
                  \o <<"]">>,
          counter |-> counter]
    ELSE [ret |-> <<"[">> \o Upper(pattern_type)
                  \o <<"-", "R", "E", "D", "A", "C", "T", "E", "D", "]">>,
          counter |-> counter]

\* _get_pattern_replacement: the replacement text and the counters
\* afterwards.
get_pattern_replacement(counter, pattern_type, random_mode) ==
    IF random_mode
    THEN LET n == CounterOf(counter, pattern_type) + 1
         IN  [ret |-> <<"[">> \o Upper(pattern_type) \o <<"-">>
                      \o Format03d(n) \o <<"]">>,
              counter |-> [p \in DOMAIN counter \cup {pattern_type} |->
                              IF p = pattern_type THEN n ELSE counter[p]]]
    ELSE [ret |-> <<"[">> \o Upper(pattern_type)
                  \o <<"-", "R", "E", "D", "A", "C", "T", "E", "D", "]">>,
          counter |-> counter]

\* re.sub(pattern, replace_func, result) of redact_patterns: replace_func is
\* called on the matches ms of the text from left to right; pos is where
\* the text after the last match begins.  st holds the text built so far,
\* the log and the counters.
RECURSIVE sub_replace_func(_, _, _, _, _, _, _)
sub_replace_func(text, ms, k, pos, pattern_name, random_mode, st) ==
    IF k > Len(ms) \/ Len(st.log) < 0
    THEN [st EXCEPT !.result = @ \o SubSeq(text, pos, Len(text))]
    ELSE LET original == Group0(text, ms[k])
             r == get_pattern_replacement(st.counter, pattern_name,
                                          random_mode)
         IN  sub_replace_func(text, ms, k + 1, ms[k].end, pattern_name,
                random_mode,
                [result |-> st.result \o SubSeq(text, pos, ms[k].start - 1)
                            \o r.ret,
                 log |-> Append(st.log,
                            [type |-> "pattern", pattern |-> pattern_name,
                             original |-> original, replacement |-> r.ret]),
                 counter |-> r.counter])

\* The loop of redact_patterns over the requested pattern names.
RECURSIVE redact_patterns_loop(_, _, _, _)
redact_patterns_loop(st, patterns, k, random_mode) ==
    IF k > Len(patterns) \/ Len(st.result) < 0 THEN st
    ELSE IF InPatterns(patterns[k])
    THEN redact_patterns_loop(
            sub_replace_func(st.result,
                             finditer(PatternOf(patterns[k]), st.result, 1),
                             1, 1, patterns[k], random_mode,
                             [st EXCEPT !.result = <<>>]),
            patterns, k + 1, random_mode)
    ELSE redact_patterns_loop(st, patterns, k + 1, random_mode)

\* list(self.PATTERNS.keys())
AllPatternNames == [k \in 1..Len(PATTERNS) |-> PATTERNS[k].name]

\* redact_patterns that starts every call with the counters clear.
redact_patterns_resets_counter(log, counter, text, patterns, random_mode) ==
    redact_patterns_loop([result |-> text, log |-> log, counter |-> <<>>],
                         IF patterns = None THEN AllPatternNames
                         ELSE patterns[1],
                         1, random_mode)

\* redact_patterns: patterns is None or Some(list of names).  The text
\* returned, the log and the counters afterwards.
redact_patterns(log, counter, text, patterns, random_mode) ==
    redact_patterns_loop([result |-> text, log |-> log, counter |-> counter],
                         IF patterns = None THEN AllPatternNames
                         ELSE patterns[1],
                         1, random_mode)

\* The sum of f over the set s.
RECURSIVE SumOver(_, _)
SumOver(f, s) ==
    IF s = {} THEN 0
    ELSE LET x == CHOOSE y \in s : TRUE IN f[x] + SumOver(f, s \ {x})

\* The set of the elements of a list.
Range(list) == {list[k] : k \in 1..Len(list)}

\* list(set(matches))[:5]: the order of a set is not fixed, so the samples
\* are any min(5, n) of the n distinct matches; they are kept as a set.
Samples(matches) ==
    LET unique == Range(matches)
    IN  IF Cardinality(unique) <= 5 THEN {unique}
        ELSE {s \in SUBSET unique : Cardinality(s) = 5}

\* The matches of every pattern in the text, by pattern name.
AllMatches(text) ==
    [name \in PatternNames |-> findall(PatternOf(name), text)]

\* analyze_text that counts the distinct matches of a pattern.
analyze_text_counts_distinct(text, samples) ==
    LET matches == AllMatches(text)
        found == {name \in PatternNames : matches[name] # <<>>}
    IN  [patterns |-> [name \in found |->
                          [count |-> Cardinality(Range(matches[name])),
                           samples |-> samples[name]]],
         statistics |->
            [total_matches |->
                SumOver([name \in found |-> Len(matches[name])], found)]]

\* analyze_text: the findings, with samples[name] the samples chosen for
\* each pattern that has matches.
analyze_text(text, samples) ==
    LET matches == AllMatches(text)
        found == {name \in PatternNames : matches[name] # <<>>}
    IN  [patterns |-> [name \in found |->
                          [count |-> Len(matches[name]),
                           samples |-> samples[name]]],
         statistics |->
            [total_matches |->
                SumOver([name \in found |-> Len(matches[name])], found)]]

\* The choices of samples analyze_text can make for a text.
SampleChoices(text) ==
    LET matches == AllMatches(text)
        found == {name \in PatternNames : matches[name] # <<>>}
        all == UNION {Range(matches[name]) : name \in found}
    IN  {s \in [found -> SUBSET all] :
            \A name \in found : s[name] \in Samples(matches[name])}

\* get_redaction_report
get_redaction_report(log) ==
    LET types == {log[k].type : k \in 1..Len(log)}
    IN  [total_redactions |-> Len(log),
         by_type |-> [t \in types |->
                        Cardinality({k \in 1..Len(log) : log[k].type = t})],
         details |-> log]

\* _generate_random_id: the prefix, a hyphen and the eight characters that
\* secrets.choice drew.
generate_random_id(prefix, random_part) == prefix \o <<"-">> \o random_part

\* re.sub(r'\b' + re.escape(entity) + r'\b', repl, text,
\* flags=re.IGNORECASE) with a replacement string without backslashes.  For
\* the empty entity the pattern matches the empty string at every word
\* boundary.
sub_string(text, entity, repl) ==
    IF entity = <<>>
    THEN Flatten([i \in 1..(Len(text) + 1) |->
                    (IF Boundary(text, i - 1) THEN repl ELSE <<>>)
                    \o (IF i <= Len(text) THEN <<text[i]>> ELSE <<>>)], 1)
    ELSE re_sub(text, entity, repl, FALSE, 1).result

\* redact_with_random_ids that draws a new identifier for every element of
\* the list.
RECURSIVE redact_with_random_ids_loop_no_reuse(_, _, _, _, _)
redact_with_random_ids_loop_no_reuse(st, entity_list, k, entity_type, randoms) ==
    IF k > Len(entity_list) \/ Len(st.log) < 0 THEN st
    ELSE
      LET entity == entity_list[k]
          id == generate_random_id(entity_type, randoms[k])
          document_mapping ==
              [e \in DOMAIN st.document_mapping \cup {entity} |->
                  IF e = entity THEN id ELSE st.document_mapping[e]]
      IN  redact_with_random_ids_loop_no_reuse(
              [result |-> sub_string(st.result, entity,
                                     document_mapping[entity]),
               document_mapping |-> document_mapping,
               log |-> Append(st.log,
                          [type |-> "random", original |-> entity,
                           replacement |-> document_mapping[entity]])],
              entity_list, k + 1, entity_type, randoms)

\* The loop of redact_with_random_ids over the list; randoms[k] is what
\* secrets.choice draws if the k-th element needs a new identifier.
RECURSIVE redact_with_random_ids_loop(_, _, _, _, _)
redact_with_random_ids_loop(st, entity_list, k, entity_type, randoms) ==
    IF k > Len(entity_list) \/ Len(st.log) < 0 THEN st
    ELSE
      LET entity == entity_list[k]
          document_mapping ==
              IF entity \notin DOMAIN st.document_mapping
              THEN [e \in DOMAIN st.document_mapping \cup {entity} |->
                      IF e = entity
                      THEN generate_random_id(entity_type, randoms[k])
                      ELSE st.document_mapping[e]]
              ELSE st.document_mapping
      IN  redact_with_random_ids_loop(
              [result |-> sub_string(st.result, entity,
                                     document_mapping[entity]),
               document_mapping |-> document_mapping,
               log |-> Append(st.log,
                          [type |-> "random", original |-> entity,
                           replacement |-> document_mapping[entity]])],
              entity_list, k + 1, entity_type, randoms)

\* redact_with_random_ids: the text and the per-call mapping returned, and
\* the log afterwards.
redact_with_random_ids(log, text, entity_list, entity_type, randoms) ==
    redact_with_random_ids_loop(
        [result |-> text, document_mapping |-> <<>>, log |-> log],
        entity_list, 1, entity_type, randoms)

\* process_file that redacts by pattern before it redacts the entities.
process_file_patterns_first(ents, content, patterns, random_mode) ==
    LET cleared == clear_log
        p == IF patterns # None /\ patterns[1] # <<>>
             THEN redact_patterns(cleared.log, cleared.counter, content,
                                  patterns, random_mode)
             ELSE [result |-> content, log |-> cleared.log,
                   counter |-> cleared.counter]
        e == redact_entities(ents, p.log, p.result, FALSE)
    IN  [output |-> e.result, log |-> e.log, counter |-> p.counter,
         entity_pass |-> e.result, ret |-> get_redaction_report(e.log)]

\* process_file: the text written to the output file, the log and the
\* counters afterwards, the text the entity pass produced and the report
\* returned.
process_file(ents, content, patterns, random_mode) ==
    LET cleared == clear_log
        e == redact_entities(ents, cleared.log, content, FALSE)
        p == IF patterns # None /\ patterns[1] # <<>>
             THEN redact_patterns(e.log, cleared.counter, e.result,
                                  patterns, random_mode)
             ELSE [result |-> e.result, log |-> e.log,
                   counter |-> cleared.counter]
    IN  [output |-> p.result, log |-> p.log, counter |-> p.counter,
         entity_pass |-> e.result, ret |-> get_redaction_report(p.log)]

----------------------------------------------------------------------------
(* The engine at work on texts with matches of the patterns.               *)

EmailWord == <<"a", "@", "b", ".", "c", "d">>
NumberWord == <<"1", "2">>

\* The texts handed to the engine: no word, one word, two words.
EngineTexts ==
    {<<>>, EmailWord, NumberWord,
     EmailWord \o <<" ">> \o EmailWord,
     EmailWord \o <<" ">> \o NumberWord,
     NumberWord \o <<" ">> \o EmailWord}

EmailName == <<"e", "m", "a", "i", "l">>
PhoneIntlName == <<"p", "h", "o", "n", "e", "_", "i", "n", "t", "l">>

\* The pattern lists handed to redact_patterns: all patterns, one name,
\* two names, a name that is no pattern.
PatternLists ==
    {None, Some(<<EmailName>>), Some(<<PhoneIntlName, EmailName>>),
     Some(<< <<"n", "o">> >>)}

\* The mapping files the engine is constructed with.
EngineMappings ==
    {<<>>,
     <<Entity(EmailWord, <<"x">>, <<"o">>, <<>>, <<>>)>>,
     <<Entity(NumberWord, EmailWord, <<"o">>, <<>>, <<>>)>>}

\* TextRedactor(mapping_file)
InitEngine ==
    /\ entities = empty_mapping
    /\ mapping \in EngineMappings
    /\ redaction_log = <<>>
    /\ random_counter = <<>>
    /\ last = Idle
    /\ Unsaved

RedactPatterns ==
    /\ last = Idle
    /\ Len(redaction_log) <= MaxLog
    /\ \E text \in EngineTexts, patterns \in PatternLists,
          random_mode \in BOOLEAN :
        LET r == redact_patterns(redaction_log, random_counter, text,
                                 patterns, random_mode)
        IN  /\ redaction_log' = r.log
            /\ random_counter' = r.counter
            /\ last' = [op |-> "redact_patterns", text |-> text,
                        patterns |-> patterns, random_mode |-> random_mode,
                        log |-> redaction_log, counter |-> random_counter,
                        ret |-> r.result]
    /\ UNCHANGED <<entities, mapping>>
    /\ UNCHANGED persistence

\* The entity lists handed to redact_with_random_ids.
EntityLists ==
    {<<NumberWord>>, <<NumberWord, NumberWord>>, <<NumberWord, EmailWord>>}

\* The eight characters secrets.choice can draw, two of them.
RandomParts ==
    {<<"A", "A", "A", "A", "A", "A", "A", "A">>,
     <<"Z", "9", "Z", "9", "Z", "9", "Z", "9">>}

EntityTypes == {<<"E">>}

RedactEntitiesEngine ==
    /\ last = Idle
    /\ Len(redaction_log) <= MaxLog
    /\ \E text \in EngineTexts :
        LET r == redact_entities(mapping, redaction_log, text, FALSE)
        IN  /\ redaction_log' = r.log
            /\ last' = [op |-> "redact_entities", text |-> text,
                        case_sensitive |-> FALSE,
                        log |-> redaction_log, ret |-> r.result]
    /\ UNCHANGED <<entities, mapping, random_counter>>
    /\ UNCHANGED persistence

RedactWithRandomIds ==
    /\ last = Idle
    /\ Len(redaction_log) <= MaxLog
    /\ \E text \in EngineTexts, ents \in EntityLists,
          entity_type \in EntityTypes :
        \E randoms \in [1..Len(ents) -> RandomParts] :
          LET r == redact_with_random_ids(redaction_log, text, ents,
                                          entity_type, randoms)
          IN  /\ redaction_log' = r.log
              /\ last' = [op |-> "redact_with_random_ids", text |-> text,
                          entities |-> ents, entity_type |-> entity_type,
                          log |-> redaction_log,
                          ret |-> <<r.result, r.document_mapping>>]
    /\ UNCHANGED <<entities, mapping, random_counter>>
    /\ UNCHANGED persistence

AnalyzeText ==
    /\ last = Idle
    /\ Len(redaction_log) <= MaxLog
    /\ \E text \in EngineTexts :
        \E samples \in SampleChoices(text) :
          last' = [op |-> "analyze_text", text |-> text,
                   ret |-> analyze_text(text, samples)]
    /\ UNCHANGED <<entities, redactor>>
    /\ UNCHANGED persistence

GetRedactionReport ==
    /\ last = Idle
    /\ Len(redaction_log) <= MaxLog
    /\ last' = [op |-> "get_redaction_report",
                ret |-> get_redaction_report(redaction_log)]
    /\ UNCHANGED <<entities, redactor>>
    /\ UNCHANGED persistence

\* process_file(input_path, output_path, redactor, patterns, random_mode)
\* on an input file that holds content.
ProcessFile ==
    /\ last = Idle
    /\ Len(redaction_log) <= MaxLog
    /\ \E content \in EngineTexts, patterns \in PatternLists \cup {Some(<<>>)},
          random_mode \in BOOLEAN :
        LET r == process_file(mapping, content, patterns, random_mode)
        IN  /\ redaction_log' = r.log
            /\ random_counter' = r.counter
            /\ last' = [op |-> "process_file", content |-> content,
                        patterns |-> patterns, random_mode |-> random_mode,
                        log |-> redaction_log, counter |-> random_counter,
                        entity_pass |-> r.entity_pass,
                        output |-> r.output, ret |-> r.ret]
    /\ UNCHANGED <<entities, mapping>>
    /\ UNCHANGED persistence

NextEngine ==
    \/ RedactPatterns
    \/ RedactEntitiesEngine
    \/ RedactWithRandomIds
    \/ AnalyzeText
    \/ GetRedactionReport
    \/ ProcessFile
    \/ ClearLog
    \/ Return

SpecEngine == InitEngine /\ [][NextEngine]_vars

----------------------------------------------------------------------------
(* AliasManager.validate on a mapping file loaded at construction.         *)

\* The number of times x occurs in the list.
Count(list, x) == Cardinality({k \in 1..Len(list) : list[k] = x})

\* The issues about empty fields, from the i-th entity on.  An issue stands
\* for the message the code formats: the entity's index counts from 0.
RECURSIVE missing_issues(_, _)
missing_issues(ents, i) ==
    IF i > Len(ents) THEN <<>>
    ELSE (IF ents[i].original = <<>>
          THEN <<[issue |-> "missing original", index |-> i - 1]>>
          ELSE <<>>)
         \o (IF ents[i].alias = <<>>
             THEN <<[issue |-> "missing alias", index |-> i - 1]>>
             ELSE <<>>)
         \o missing_issues(ents, i + 1)

\* validate that compares originals and aliases as they are written.
validate_case_sensitive(ents) ==
    LET originals == [i \in 1..Len(ents) |-> ents[i].original]
        duplicates == {x \in Range(originals) : Count(originals, x) > 1}
        aliases == [i \in 1..Len(ents) |-> ents[i].alias]
        dup_aliases == {x \in Range(aliases) : Count(aliases, x) > 1}
        issues ==
            (IF duplicates # {}
             THEN <<[issue |-> "Duplicate originals", names |-> duplicates]>>
             ELSE <<>>)
            \o (IF dup_aliases # {}
                THEN <<[issue |-> "Duplicate aliases",
                        names |-> dup_aliases]>>
                ELSE <<>>)
            \o missing_issues(ents, 1)
    IN  [ret |-> [valid |-> Len(issues) = 0, issues |-> issues],
         entities |-> ents]

\* validate: the result and the store afterwards.
validate(ents) ==
    LET originals == [i \in 1..Len(ents) |-> Lower(ents[i].original)]
        duplicates == {x \in Range(originals) : Count(originals, x) > 1}
        aliases == [i \in 1..Len(ents) |-> Lower(ents[i].alias)]
        dup_aliases == {x \in Range(aliases) : Count(aliases, x) > 1}
        issues ==
            (IF duplicates # {}
             THEN <<[issue |-> "Duplicate originals", names |-> duplicates]>>
             ELSE <<>>)
            \o (IF dup_aliases # {}
                THEN <<[issue |-> "Duplicate aliases",
                        names |-> dup_aliases]>>
                ELSE <<>>)
            \o missing_issues(ents, 1)
    IN  [ret |-> [valid |-> Len(issues) = 0, issues |-> issues],
         entities |-> ents]

\* The documents a mapping file can hold: any entities, also ones that
\* add_entity would refuse.
LoadedEntities ==
    {Entity(o, a, <<"o">>, <<>>, <<>>) : o \in Originals, a \in Aliases}

LoadedDocuments == UNION {[1..n -> LoadedEntities] : n \in 0..MaxEntities}

\* AliasManager(mapping_path)
InitLoaded ==
    /\ entities \in LoadedDocuments
    /\ mapping = empty_mapping
    /\ redaction_log = <<>>
    /\ random_counter = <<>>
    /\ last = Idle
    /\ Unsaved

Validate ==
    /\ last = Idle
    /\ LET r == validate(entities)
       IN  /\ entities' = r.entities
           /\ last' = [op |-> "validate", pre |-> entities, ret |-> r.ret]
    /\ UNCHANGED redactor
    /\ UNCHANGED persistence

NextValidate ==
    \/ Validate
    \/ Return

SpecValidate == InitLoaded /\ [][NextValidate]_vars

----------------------------------------------------------------------------
(* AliasManager.update_entity on a saved mapping file, whose entities      *)
(* carry the time they were added.                                         *)

\* An entity as add_entity stores it and save writes it.
SavedEntity(original, alias, variations) ==
    [original |-> original, alias |-> alias, type |-> <<"o">>,
     variations |-> variations, notes |-> <<>>, added |-> <<"t">>]

SavedEntities ==
    {SavedEntity(<<"a">>, <<"x">>, v) : v \in {<<>>, << <<"c">> >>}}
    \cup {SavedEntity(<<"b">>, <<"y">>, v) :
            v \in {<<>>, << <<"a">> >>, << <<"c">> >>}}

\* The saved documents: the originals of a document are distinct.
SavedDocuments ==
    {d \in UNION {[1..n -> SavedEntities] : n \in 0..MaxEntities} :
        \A i, j \in 1..Len(d) : i # j => d[i].original # d[j].original}

\* AliasManager(mapping_path)
InitSaved ==
    /\ entities \in SavedDocuments
    /\ mapping = empty_mapping
    /\ redaction_log = <<>>
    /\ random_counter = <<>>
    /\ last = Idle
    /\ Unsaved

\* The keyword arguments of a call: the four fields update_entity applies,
\* and one it does not.
FieldKwargs ==
    [alias : {None, Some(<<"z">>)},
     type : {None, Some(<<"p">>)},
     variations : {None, Some(<< <<"d">> >>)},
     notes : {None, Some(<<"n">>)},
     added : {None, Some(<<"u">>)}]

UpdateEntityFields ==
    /\ last = Idle
    /\ \E original \in {<<"a">>, <<"B">>, <<"c">>, <<"z">>},
          kwargs \in FieldKwargs :
        LET r == update_entity(entities, original, kwargs)
        IN  /\ entities' = r.entities
            /\ last' = [op |-> "update_entity", pre |-> entities,
                        ret |-> r.ret, original |-> original,
                        kwargs |-> kwargs]
    /\ UNCHANGED redactor
    /\ UNCHANGED persistence

NextUpdate ==
    \/ UpdateEntityFields
    \/ Return

SpecUpdate == InitSaved /\ [][NextUpdate]_vars

----------------------------------------------------------------------------
(* AliasManager.remove_entity on a mapping file loaded at construction,    *)
(* which may hold one original more than once.                             *)

VariedEntities ==
    {Entity(o, <<"x">>, <<"o">>, v, <<>>) :
        o \in {<<"a">>, <<"A">>, <<"b">>}, v \in {<<>>, << <<"c">> >>}}

VariedDocuments == UNION {[1..n -> VariedEntities] : n \in 0..MaxEntities}

\* AliasManager(mapping_path)
InitVaried ==
    /\ entities \in VariedDocuments
    /\ mapping = empty_mapping
    /\ redaction_log = <<>>
    /\ random_counter = <<>>
    /\ last = Idle
    /\ Unsaved

RemoveLoadedEntity ==
    /\ last = Idle
    /\ \E original \in {<<"a">>, <<"B">>, <<"c">>} :
        LET r == remove_entity(entities, original)
        IN  /\ entities' = r.entities
            /\ last' = [op |-> "remove_entity", pre |-> entities,
                        ret |-> r.ret, original |-> original]
    /\ UNCHANGED redactor
    /\ UNCHANGED persistence

NextRemove ==
    \/ RemoveLoadedEntity
    \/ Return

SpecRemove == InitVaried /\ [][NextRemove]_vars

----------------------------------------------------------------------------
(* AliasManager.add_variation on stores built by add_entity, whose         *)
(* variations argument is stored as it is given.                           *)

GivenVariations ==
    {<<>>, << <<"c">> >>, << <<"c">>, <<"c">> >>, << <<"a">> >>}

AddEntityGiven ==
    /\ last = Idle
    /\ \E original \in {<<"a">>, <<"b">>}, alias \in {<<"x">>, <<"y">>},
          variations \in GivenVariations :
        LET r == add_entity(entities, original, alias, <<"o">>, variations,
                            <<>>)
        IN  /\ Len(r.entities) <= MaxEntities
            /\ entities' = r.entities
            /\ last' = [op |-> "add_entity", pre |-> entities, ret |-> r.ret,
                        original |-> original, alias |-> alias,
                        type |-> <<"o">>, variations |-> variations,
                        notes |-> <<>>]
    /\ UNCHANGED redactor
    /\ UNCHANGED persistence

AddVariationGiven ==
    /\ last = Idle
    /\ \E original \in {<<"a">>, <<"B">>, <<"c">>, <<"z">>},
          variation \in {<<"c">>, <<"C">>} :
        LET r == add_variation(entities, original, variation)
        IN  /\ entities' = r.entities
            /\ last' = [op |-> "add_variation", pre |-> entities,
                        ret |-> r.ret, original |-> original,
                        variation |-> variation]
    /\ UNCHANGED redactor
    /\ UNCHANGED persistence

NextVariation ==
    \/ AddEntityGiven
    \/ AddVariationGiven
    \/ Return

SpecVariation == Init /\ [][NextVariation]_vars

----------------------------------------------------------------------------
(* AliasManager.import_csv on stores built by import_csv.                  *)

ImportRows ==
    {Row(o, a, Some(<<"o">>), Some(<<>>), Some(<<>>)) :
        o \in {<<"a">>, <<"A">>, <<"b">>}, a \in {<<"x">>, <<"y">>}}
    \cup {Row(<<"b">>, <<"y">>, None, None, None)}

\* The rows the reader yields for a file of at most two rows.
ImportFiles == UNION {[1..n -> ImportRows] : n \in 0..2}

ImportFile ==
    /\ last = Idle
    /\ \E rows \in ImportFiles, overwrite \in BOOLEAN :
        LET r == import_csv(entities, rows, overwrite)
        IN  /\ Len(r.entities) <= MaxEntities
            /\ entities' = r.entities
            /\ last' = [op |-> "import_csv", pre |-> entities, ret |-> r.ret,
                        rows |-> rows, overwrite |-> overwrite]
    /\ UNCHANGED redactor
    /\ UNCHANGED persistence

NextImport ==
    \/ ImportFile
    \/ Return

SpecImport == Init /\ [][NextImport]_vars

----------------------------------------------------------------------------
(* A manager that is saved: the clock runs, entities are added, and save   *)
(* is called with and without a path.                                      *)

\* The latest time of the clock.
MaxClock == 1

\* The entities given to add_entity.
NamedEntities ==
    {Entity(<<"a">>, <<"x">>, <<"o">>, <<>>, <<>>),
     Entity(<<"b">>, <<"y">>, <<"o">>, <<>>, <<>>)}

\* The disk at the start: nothing, or m.json saved at time 0.
Disks ==
    {NoFiles,
     [NoFiles EXCEPT !["m.json"] =
         Written(Document(0, <<Entity(<<"c">>, <<"z">>, <<"o">>, <<>>,
                                      <<>>)>>))]}

\* AliasManager() or AliasManager(Path("m.json"))
InitManager ==
    /\ clock = 0
    /\ files \in Disks
    /\ mapping_file \in {None, Some("m.json")}
    /\ entities = construct(files, mapping_file, clock).mapping.entities
    /\ updated = construct(files, mapping_file, clock).mapping.updated
    /\ callers = <<>>
    /\ mapping = empty_mapping
    /\ redaction_log = <<>>
    /\ random_counter = <<>>
    /\ last = Idle

\* Time passes.
Tick ==
    /\ clock < MaxClock
    /\ clock' = clock + 1
    /\ UNCHANGED <<entities, redactor, mapping_file, updated, files, callers,
                   last>>

\* add_entity on a store that may hold the entity of the loaded file.
AddEntityNamed ==
    /\ last = Idle
    /\ \E e \in NamedEntities :
        LET r == add_entity(entities, e.original, e.alias, e.type,
                            e.variations, e.notes)
        IN  /\ Len(r.entities) <= MaxEntities + 1
            /\ entities' = r.entities
            /\ last' = [op |-> "add_entity", pre |-> entities, ret |-> r.ret,
                        original |-> e.original, alias |-> e.alias,
                        type |-> e.type, variations |-> e.variations,
                        notes |-> e.notes]
    /\ UNCHANGED <<redactor, persistence>>

Save ==
    /\ last = Idle
    /\ \E path \in {None, Some("n.json")}, io_ok \in BOOLEAN :
        LET r == save(mapping_file, Document(updated, entities), files,
                      clock, path, io_ok)
        IN  /\ entities' = r.mapping.entities
            /\ updated' = r.mapping.updated
            /\ files' = r.files
            /\ last' = [op |-> "save", path |-> path, ret |-> r.ret,
                        now |-> clock, entities |-> entities,
                        updated |-> updated, files |-> files]
    /\ UNCHANGED <<redactor, mapping_file, clock, callers>>

NextSave ==
    \/ Tick
    \/ AddEntityNamed
    \/ Save
    \/ Return

SpecSave == InitManager /\ [][NextSave]_vars

----------------------------------------------------------------------------
(* Two processes run the add command of the command line on m.json, each   *)
(* with its own manager: load, add_entity, save.                           *)

Callers == {1, 2}

\* The arguments of each caller's command.
CallerEntity(c) ==
    IF c = 1 THEN Entity(<<"a">>, <<"x">>, <<"o">>, <<>>, <<>>)
    ELSE Entity(<<"b">>, <<"y">>, <<"o">>, <<>>, <<>>)

InitCallers ==
    /\ clock = 0
    /\ files \in Disks
    /\ callers = [c \in Callers |->
                    [pc |-> "start", read |-> None, mapping |-> None,
                     success |-> FALSE]]
    /\ mapping_file = None
    /\ entities = empty_mapping
    /\ updated = 0
    /\ mapping = empty_mapping
    /\ redaction_log = <<>>
    /\ random_counter = <<>>
    /\ last = Idle

\* manager = AliasManager(mapping_path if mapping_path.exists() else None)
CliLoad ==
    \E c \in Callers :
        /\ callers[c].pc = "start"
        /\ LET r == construct(files,
                              IF files["m.json"].exists THEN Some("m.json")
                              ELSE None,
                              clock)
           IN  callers' = [callers EXCEPT ![c] =
                  IF r.raised
                  THEN [@ EXCEPT !.pc = "raised"]
                  ELSE [@ EXCEPT !.pc = "loaded",
                                 !.read = Some(files["m.json"]),
                                 !.mapping = Some(r.mapping)]]
        /\ UNCHANGED <<entities, redactor, mapping_file, updated, files,
                       clock, last>>

\* success = manager.add_entity(...)
CliAdd ==
    \E c \in Callers :
        /\ callers[c].pc = "loaded"
        /\ LET e == CallerEntity(c)
               r == add_entity(callers[c].mapping[1].entities, e.original,
                               e.alias, e.type, e.variations, e.notes)
           IN  callers' = [callers EXCEPT ![c] =
                  IF r.ret
                  THEN [@ EXCEPT !.pc = "added", !.success = TRUE,
                                 !.mapping = Some([@[1] EXCEPT
                                                !.entities = r.entities])]
                  ELSE [@ EXCEPT !.pc = "done"]]
        /\ UNCHANGED <<entities, redactor, mapping_file, updated, files,
                       clock, last>>

\* manager.save(mapping_path), up to open(path, 'w')
CliSaveOpen ==
    \E c \in Callers :
        /\ callers[c].pc = "added"
        /\ callers' = [callers EXCEPT ![c] =
              [@ EXCEPT !.pc = "writing",
                        !.mapping = Some([@[1] EXCEPT !.updated = clock])]]
        /\ files' = open_w(files, "m.json")
        /\ UNCHANGED <<entities, redactor, mapping_file, updated, clock,
                       last>>

\* manager.save(mapping_path), json.dump and the message of success
CliSaveDump ==
    \E c \in Callers :
        /\ callers[c].pc = "writing"
        /\ files' = json_dump(files, "m.json", callers[c].mapping[1])
        /\ callers' = [callers EXCEPT ![c] = [@ EXCEPT !.pc = "done"]]
        /\ UNCHANGED <<entities, redactor, mapping_file, updated, clock,
                       last>>

NextCallers ==
    \/ CliLoad
    \/ CliAdd
    \/ CliSaveOpen
    \/ CliSaveDump
    \/ Tick

SpecCallers == InitCallers /\ [][NextCallers]_vars

----------------------------------------------------------------------------
(* Properties of the store.                                                *)

\* Case-insensitive equality of two strings.
SameCI(s, t) == Lower(s) = Lower(t)

\* The entity takes the query: by its original or by one of its variations.
Answers(e, q) ==
    \/ SameCI(e.original, q)
    \/ \E k \in 1..Len(e.variations) : SameCI(e.variations[k], q)

\* The store before the k-th incoming entity of the merge in last.
MergeBefore(k) == IF k = 1 THEN last.pre ELSE last.trace[k - 1].entities

\* The counters before the k-th incoming entity of the merge in last.
MergeCountBefore(k) ==
    IF k = 1 THEN [added |-> 0, skipped |-> 0, overwritten |-> 0]
    ELSE last.trace[k - 1].ret

\* The k-th incoming entity has the original of an entity of the store.
MergeConflict(k) ==
    \E i \in 1..Len(MergeBefore(k)) :
        SameCI(MergeBefore(k)[i].original, last.other[k].original)

\* C1: add_entity returns false and leaves the entity sequence as it was
\* when the original or the alias equals, case-insensitively, that of an
\* existing entity; otherwise it appends exactly the new entity at the end
\* and returns true; the same call made again returns false and changes
\* nothing.
C1_AddEntityContract ==
    last.op = "add_entity" =>
        LET collides ==
                \E i \in 1..Len(last.pre) :
                    \/ SameCI(last.pre[i].original, last.original)
                    \/ SameCI(last.pre[i].alias, last.alias)
            again == add_entity(entities, last.original, last.alias,
                                last.type, last.variations, last.notes)
        IN  /\ collides => last.ret = FALSE /\ entities = last.pre
            /\ ~collides =>
                /\ last.ret = TRUE
                /\ entities = Append(last.pre,
                                  Entity(last.original, last.alias, last.type,
                                         last.variations, last.notes))
            /\ again.ret = FALSE /\ again.entities = entities

\* C1's case: an add refused only because its alias is that of an existing
\* entity in another case.
C1_Witness ==
    /\ last.op = "add_entity"
    /\ last.ret = FALSE
    /\ \A i \in 1..Len(last.pre) :
        ~SameCI(last.pre[i].original, last.original)
    /\ \E i \in 1..Len(last.pre) :
        /\ SameCI(last.pre[i].alias, last.alias)
        /\ last.pre[i].alias # last.alias

\* C2: without update_entity, any two distinct entities of the store differ
\* case-insensitively in their originals and in their aliases.
C2_UniqueOriginalsAndAliases ==
    \A i, j \in 1..Len(entities) :
        i # j =>
            /\ ~SameCI(entities[i].original, entities[j].original)
            /\ ~SameCI(entities[i].alias, entities[j].alias)

\* C2's case: a store of two entities after a merge that overwrote one.
C2_Witness ==
    /\ last.op = "merge"
    /\ last.conflict_strategy = "overwrite"
    /\ last.ret.overwritten = 1
    /\ Len(entities) = 2

\* C3: no two entities have case-insensitively equal aliases, update_entity
\* included.
C3_AliasUnique ==
    \A i, j \in 1..Len(entities) :
        i # j => ~SameCI(entities[i].alias, entities[j].alias)

\* C4: every entity has a non-empty original and a non-empty alias.
C4_NonEmpty ==
    \A i \in 1..Len(entities) :
        entities[i].original # <<>> /\ entities[i].alias # <<>>

\* C5: get_entity returns the first entity, in mapping order, whose original
\* or one of whose variations equals the query case-insensitively, and None
\* only when there is none; get_alias is that entity's alias, or None.
C5_GetEntityFirstMatch ==
    last.op = "get_entity" =>
        LET hits == {i \in 1..Len(last.pre) : Answers(last.pre[i], last.original)}
        IN  /\ hits = {} => last.ret = 0 /\ last.alias = None
            /\ hits # {} =>
                /\ last.ret \in hits
                /\ \A i \in hits : last.ret <= i
                /\ last.alias = Some(last.pre[last.ret].alias)

\* C5's case: the query is a variation of the first entity and the original
\* of the second, and the first is returned.
C5_Witness ==
    /\ last.op = "get_entity"
    /\ Len(last.pre) = 2
    /\ ~SameCI(last.pre[1].original, last.original)
    /\ SameCI(last.pre[2].original, last.original)
    /\ last.ret = 1

\* C7: merge with strategy skip changes no existing entity: an incoming
\* entity whose original is that of an existing entity leaves the store as
\* it was and adds one to skipped alone, and the entities that were in the
\* store before the merge are still there, unchanged and in their places.
C7_MergeSkipKeepsExisting ==
    (last.op = "merge" /\ last.conflict_strategy = "skip") =>
        /\ \A k \in 1..Len(last.other) :
            MergeConflict(k) =>
                /\ last.trace[k].entities = MergeBefore(k)
                /\ last.trace[k].ret =
                      [MergeCountBefore(k) EXCEPT !.skipped = @ + 1]
        /\ Len(entities) >= Len(last.pre)
        /\ SubSeq(entities, 1, Len(last.pre)) = last.pre

\* C7's case: a skipped incoming entity that carries another alias than the
\* existing one.
C7_Witness ==
    /\ last.op = "merge"
    /\ last.conflict_strategy = "skip"
    /\ Len(last.other) = 1
    /\ \E i \in 1..Len(last.pre) :
        /\ SameCI(last.pre[i].original, last.other[1].original)
        /\ last.pre[i].alias # last.other[1].alias
    /\ last.ret.skipped = 1

\* C8: merge with strategy overwrite replaces a conflicting entity: after an
\* incoming entity whose original is that of an existing entity, the store
\* holds exactly one entity with that original, it is the incoming one, and
\* overwritten has grown by one.
C8_OverwriteReplaces ==
    (last.op = "merge" /\ last.conflict_strategy = "overwrite") =>
        \A k \in 1..Len(last.other) :
            MergeConflict(k) =>
                LET after == last.trace[k].entities
                    same == {i \in 1..Len(after) :
                                SameCI(after[i].original, last.other[k].original)}
                IN  /\ Cardinality(same) = 1
                    /\ \A i \in same : after[i] = last.other[k]
                    /\ last.trace[k].ret =
                          [MergeCountBefore(k) EXCEPT !.overwritten = @ + 1]

\* C9: an incoming entity that no existing entity answers to is appended to
\* the store and adds one to added, and the three counters sum to the
\* number of incoming entities.
C9_AddedCountsInsertions ==
    last.op = "merge" =>
        /\ \A k \in 1..Len(last.other) :
            (\A i \in 1..Len(MergeBefore(k)) :
                ~Answers(MergeBefore(k)[i], last.other[k].original)) =>
                /\ last.trace[k].entities =
                      Append(MergeBefore(k), last.other[k])
                /\ last.trace[k].ret =
                      [MergeCountBefore(k) EXCEPT !.added = @ + 1]
        /\ last.ret.added + last.ret.skipped + last.ret.overwritten
              = Len(last.other)

----------------------------------------------------------------------------
(* Properties of the round trip through the tabular form.                  *)

\* The entities of a store as a set.
EntitySet(ents) == {ents[i] : i \in 1..Len(ents)}

\* The string holds the character.
Holds(s, c) == \E i \in 1..Len(s) : s[i] = c

\* No variation of the store holds a semicolon.
NoSemicolon(ents) ==
    \A i \in 1..Len(ents) : \A k \in 1..Len(ents[i].variations) :
        ~Holds(ents[i].variations[k], ";")

\* No variation is empty or begins or ends with white space.
TrimmedVariations(ents) ==
    \A i \in 1..Len(ents) : \A k \in 1..Len(ents[i].variations) :
        LET v == ents[i].variations[k]
        IN  v # <<>> /\ ~IsSpace(v[1]) /\ ~IsSpace(v[Len(v)])

\* No field of the store holds a carriage return.
NoCarriageReturn(ents) ==
    \A i \in 1..Len(ents) :
        /\ ~Holds(ents[i].original, "\r")
        /\ ~Holds(ents[i].alias, "\r")
        /\ ~Holds(ents[i].type, "\r")
        /\ ~Holds(ents[i].notes, "\r")
        /\ \A k \in 1..Len(ents[i].variations) :
              ~Holds(ents[i].variations[k], "\r")

\* The import gave back the exported entities, every row counted as added.
RoundTripExact ==
    /\ EntitySet(last.imported) = EntitySet(last.pre)
    /\ last.ret.added = Len(last.pre)
    /\ last.ret.skipped = 0
    /\ last.ret.errors = <<>>

\* C10: for a store in which no variation holds a semicolon, export_csv
\* then import_csv into an empty store gives the same set of (original,
\* alias, type, variations, notes), added the number of entities, skipped 0
\* and no errors.
C10_RoundTripNoSemicolon ==
    (last.op = "export_import" /\ NoSemicolon(last.pre)) => RoundTripExact

\* The round trip is exact for a store in which moreover no variation is
\* empty or begins or ends with white space and no field holds a carriage
\* return.
RoundTripOfTrimmedStore ==
    (/\ last.op = "export_import"
     /\ NoSemicolon(last.pre)
     /\ TrimmedVariations(last.pre)
     /\ NoCarriageReturn(last.pre)) => RoundTripExact

\* An exact round trip of two entities, one with two variations, a quoted
\* alias and a quoted note.
TrimmedStoreRoundTrip ==
    /\ last.op = "export_import"
    /\ NoSemicolon(last.pre)
    /\ TrimmedVariations(last.pre)
    /\ NoCarriageReturn(last.pre)
    /\ Len(last.pre) = 2
    /\ \E i \in 1..2 :
        /\ Len(last.pre[i].variations) = 2
        /\ NeedsQuotes(last.pre[i].alias)
        /\ NeedsQuotes(last.pre[i].notes)
    /\ RoundTripExact

----------------------------------------------------------------------------
(* Properties of redact_entities.                                          *)

\* The positions of the whole-word occurrences of a term in a text.
Occurrences(text, term, case_sensitive) ==
    {i \in 1..Len(text) : MatchAt(text, term, i, case_sensitive)}

NonOverlapping(occ, n) == \A i, j \in occ : i < j => i + n <= j

\* The text with the n characters at each position of occ replaced by the
\* alias.
Replaced(text, occ, n, alias) ==
    Flatten([i \in 1..Len(text) |->
                IF i \in occ THEN alias
                ELSE IF \E j \in occ : j < i /\ i < j + n THEN <<>>
                ELSE <<text[i]>>], 1)

\* The substrings of the text at the positions of occ, from left to right.
RECURSIVE MatchedFrom(_, _, _, _)
MatchedFrom(text, occ, n, i) ==
    IF i > Len(text) THEN <<>>
    ELSE IF i \in occ
    THEN <<SubSeq(text, i, i + n - 1)>> \o MatchedFrom(text, occ, n, i + 1)
    ELSE MatchedFrom(text, occ, n, i + 1)

\* The non-empty terms of the mapping other than the original of entity e.
OtherTerms(e) ==
    ({mapping[j].original : j \in (1..Len(mapping)) \ {e}}
     \cup UNION {{mapping[j].variations[k] :
                     k \in 1..Len(mapping[j].variations)} :
                  j \in 1..Len(mapping)})
    \ {<<>>}

\* The log entries the observed call appended.
Appended == SubSeq(redaction_log, Len(last.log) + 1, Len(redaction_log))

\* The original of entity e stands alone in the text: its occurrences do
\* not overlap, and no other term of the mapping occurs in the text or in
\* the text with those occurrences replaced.
Isolated(e) ==
    LET t   == mapping[e].original
        occ == Occurrences(last.text, t, last.case_sensitive)
        mid == Replaced(last.text, occ, Len(t), mapping[e].alias)
    IN  /\ t # <<>>
        /\ NonOverlapping(occ, Len(t))
        /\ \A u \in OtherTerms(e) :
              /\ Occurrences(last.text, u, last.case_sensitive) = {}
              /\ Occurrences(mid, u, last.case_sensitive) = {}

\* The non-empty terms of the entities other than entity e.
TermsOfOthers(e) ==
    UNION {{mapping[j].original}
           \cup {mapping[j].variations[k] :
                    k \in 1..Len(mapping[j].variations)} :
           j \in (1..Len(mapping)) \ {e}}
    \ {<<>>}

\* C6: when the text holds N whole-word occurrences of the (non-empty)
\* original of an entity and no occurrence of a term of any other entity,
\* redact_entities returns the text with each of the N occurrences replaced
\* by the alias and appends exactly N log entries, each of kind entity with
\* replacement = alias and mapped_from = the term.
C6_NOccurrencesNEntries ==
    last.op = "redact_entities" =>
        \A e \in 1..Len(mapping) :
            LET t   == mapping[e].original
                occ == Occurrences(last.text, t, last.case_sensitive)
            IN  (/\ t # <<>>
                 /\ \A u \in TermsOfOthers(e) :
                       Occurrences(last.text, u, last.case_sensitive) = {})
                => /\ last.ret = Replaced(last.text, occ, Len(t),
                                          mapping[e].alias)
                   /\ Len(redaction_log) = Len(last.log) + Cardinality(occ)
                   /\ \A k \in 1..Len(Appended) :
                         /\ Appended[k].type = "entity"
                         /\ Appended[k].replacement = mapping[e].alias
                         /\ Appended[k].mapped_from = t

\* C6, amended: when the N whole-word occurrences of the non-empty original
\* of an entity do not overlap and no other term of the mapping occurs in
\* the text or in the text with those occurrences replaced, redact_entities
\* returns the text with each occurrence replaced by the alias and appends
\* exactly N log entries, in the order of the occurrences, each of kind
\* entity with original = the matched text, replacement = alias and
\* mapped_from = the term; the earlier entries of the log are kept.
C6_IsolatedOccurrences ==
    last.op = "redact_entities" =>
        \A e \in 1..Len(mapping) :
            LET t     == mapping[e].original
                occ   == Occurrences(last.text, t, last.case_sensitive)
                found == MatchedFrom(last.text, occ, Len(t), 1)
            IN  Isolated(e) =>
                  /\ last.ret = Replaced(last.text, occ, Len(t),
                                         mapping[e].alias)
                  /\ Len(redaction_log) = Len(last.log) + Cardinality(occ)
                  /\ SubSeq(redaction_log, 1, Len(last.log)) = last.log
                  /\ \A k \in 1..Len(Appended) :
                        Appended[k] =
                            [type |-> "entity", original |-> found[k],
                             replacement |-> mapping[e].alias,
                             mapped_from |-> t]

\* C6, witness: a call on a log that already holds an entry replaced two
\* isolated occurrences of the original of the first of two entities.
C6_Witness ==
    /\ last.op = "redact_entities"
    /\ last.log # <<>>
    /\ Len(mapping) = 2
    /\ Isolated(1)
    /\ Cardinality(Occurrences(last.text, mapping[1].original,
                               last.case_sensitive)) >= 2
    /\ Len(redaction_log) = Len(last.log) + 2

----------------------------------------------------------------------------
(* Properties of redact_patterns.                                          *)

\* The three digits of a number below 1000.
ThreeDigits(n) ==
    LET d == <<"0", "1", "2", "3", "4", "5", "6", "7", "8", "9">>
    IN  <<d[(n \div 100) + 1], d[((n \div 10) % 10) + 1], d[(n % 10) + 1]>>

\* The placeholder with number n for a pattern name.
Numbered(pattern_name, n) ==
    <<"[">> \o Upper(pattern_name) \o <<"-">> \o ThreeDigits(n) \o <<"]">>

\* The text with its k-th match, for every k, replaced by the placeholder
\* numbered from + k.
RECURSIVE WithNumbered(_, _, _, _, _, _)
WithNumbered(text, ms, k, pos, pattern_name, from) ==
    IF k > Len(ms) THEN SubSeq(text, pos, Len(text))
    ELSE SubSeq(text, pos, ms[k].start - 1)
         \o Numbered(pattern_name, from + k)
         \o WithNumbered(text, ms, k + 1, ms[k].end, pattern_name, from)

\* C11: in random mode, with the counters clear, redact_patterns with one
\* pattern name replaces the k matches of the pattern, from left to right,
\* by the placeholders numbered 001 to k and appends one log entry of kind
\* pattern for each match, in the same order.
C11_RandomModeNumbersMatches ==
    (/\ last.op = "redact_patterns"
     /\ last.random_mode
     /\ last.counter = <<>>
     /\ last.patterns # None
     /\ Len(last.patterns[1]) = 1
     /\ InPatterns(last.patterns[1][1])) =>
        LET name == last.patterns[1][1]
            ms   == finditer(PatternOf(name), last.text, 1)
        IN  /\ last.ret = WithNumbered(last.text, ms, 1, 1, name, 0)
            /\ redaction_log = last.log \o
                  [k \in 1..Len(ms) |->
                      [type |-> "pattern", pattern |-> name,
                       original |-> Group0(last.text, ms[k]),
                       replacement |-> Numbered(name, k)]]

\* C11, witness: two email addresses became [EMAIL-001] and [EMAIL-002], on
\* top of a log that held an entry.
C11_Witness ==
    /\ last.op = "redact_patterns"
    /\ last.random_mode
    /\ last.counter = <<>>
    /\ last.log # <<>>
    /\ last.patterns = Some(<<EmailName>>)
    /\ last.text = EmailWord \o <<" ">> \o EmailWord
    /\ last.ret = <<"[", "E", "M", "A", "I", "L", "-", "0", "0", "1", "]",
                    " ",
                    "[", "E", "M", "A", "I", "L", "-", "0", "0", "2", "]">>
    /\ Len(redaction_log) = Len(last.log) + 2

\* The entries a step appends to the log.
AppendedByStep ==
    SubSeq(redaction_log', Len(redaction_log) + 1, Len(redaction_log'))

\* The replacements a step logs for a pattern name, in order.
IssuedByStep(name) ==
    LET es == SelectSeq(AppendedByStep,
                        LAMBDA e : e.type = "pattern" /\ e.pattern = name)
    IN  [k \in 1..Len(es) |-> es[k].replacement]

\* C12: a call of redact_patterns, redact_entities, redact_with_random_ids,
\* analyze_text or get_redaction_report never resets or decreases a
\* counter: only redact_patterns in random mode changes the counters, and
\* the numbers it issues for a pattern name continue from the counter, one
\* per match, which is the counter afterwards; clear_log empties the
\* counters and the log.
C12_CountersOnlyClearedByClearLog ==
    [][/\ last'.op \in {"redact_entities", "redact_with_random_ids",
                        "analyze_text", "get_redaction_report"}
          => random_counter' = random_counter
       /\ last'.op = "redact_patterns" =>
            /\ SubSeq(redaction_log', 1, Len(redaction_log)) = redaction_log
            /\ ~last'.random_mode => random_counter' = random_counter
            /\ last'.random_mode =>
                 \A name \in PatternNames \cup DOMAIN random_counter :
                    LET c == CounterOf(random_counter, name)
                        issued == IssuedByStep(name)
                    IN  /\ CounterOf(random_counter', name) = c + Len(issued)
                        /\ \A k \in 1..Len(issued) :
                              issued[k] = Numbered(name, c + k)
       /\ last'.op = "clear_log" =>
            /\ random_counter' = <<>>
            /\ redaction_log' = <<>>
      ]_vars

\* C12, witness: a call of redact_patterns in random mode that began with
\* the email counter at 1 or more has raised it.
C12_Witness ==
    /\ last.op = "redact_patterns"
    /\ last.random_mode
    /\ CounterOf(last.counter, EmailName) >= 1
    /\ CounterOf(random_counter, EmailName)
          > CounterOf(last.counter, EmailName)

----------------------------------------------------------------------------
(* Properties of validate.                                                 *)

\* The issues validate returned, as a set.
Issues == Range(last.ret.issues)

\* Two entities of the document have equal originals, or equal aliases,
\* case aside.
HasDuplicate(ents) ==
    \E i, j \in 1..Len(ents) :
        /\ i < j
        /\ \/ SameCI(ents[i].original, ents[j].original)
           \/ SameCI(ents[i].alias, ents[j].alias)

HasEmpty(ents) ==
    \E i \in 1..Len(ents) : ents[i].original = <<>> \/ ents[i].alias = <<>>

\* C13: validate returns an issue that names the duplicate for every two
\* entities with originals, or aliases, equal case aside, however the
\* document came about, and an issue for every entity with an empty
\* original or alias; valid is true exactly when there is neither; the
\* document is not changed.
C13_ValidateFindsDuplicatesAndEmpties ==
    last.op = "validate" =>
        /\ \A i, j \in 1..Len(last.pre) :
              (i < j /\ SameCI(last.pre[i].original, last.pre[j].original))
              => \E x \in Issues :
                    /\ x.issue = "Duplicate originals"
                    /\ Lower(last.pre[i].original) \in x.names
        /\ \A i, j \in 1..Len(last.pre) :
              (i < j /\ SameCI(last.pre[i].alias, last.pre[j].alias))
              => \E x \in Issues :
                    /\ x.issue = "Duplicate aliases"
                    /\ Lower(last.pre[i].alias) \in x.names
        /\ \A i \in 1..Len(last.pre) :
              /\ last.pre[i].original = <<>>
                 => [issue |-> "missing original", index |-> i - 1] \in Issues
              /\ last.pre[i].alias = <<>>
                 => [issue |-> "missing alias", index |-> i - 1] \in Issues
        /\ last.ret.valid = (~HasDuplicate(last.pre) /\ ~HasEmpty(last.pre))
        /\ entities = last.pre

\* C13, witness: validate on a document in which two entities with
\* different originals share an alias, case aside, reported the alias.
C13_Witness ==
    /\ last.op = "validate"
    /\ Len(last.pre) = 2
    /\ ~SameCI(last.pre[1].original, last.pre[2].original)
    /\ last.pre[1].alias # last.pre[2].alias
    /\ SameCI(last.pre[1].alias, last.pre[2].alias)
    /\ ~last.ret.valid
    /\ \E x \in Issues :
          x.issue = "Duplicate aliases" /\ x.names = {<<"x">>}

----------------------------------------------------------------------------
(* Properties of update_entity, remove_entity and add_variation.           *)

\* The entities of the store before the call that take the call's name.
Hits == {i \in 1..Len(last.pre) : Answers(last.pre[i], last.original)}

\* The first of them.
FirstHit == CHOOSE i \in Hits : \A j \in Hits : i <= j

\* C14: update_entity returns false and changes nothing when no entity is
\* found for the name; when one is found it returns true, and the store is
\* the one before the call except that, in the entity found, each of alias,
\* type, variations and notes that was supplied has the supplied value: the
\* entity's original and added, a supplied field outside these four, every
\* other entity and the order are as before.
C14_UpdateAppliesWhitelistOnly ==
    last.op = "update_entity" =>
        IF Hits = {}
        THEN last.ret = FALSE /\ entities = last.pre
        ELSE /\ last.ret = TRUE
             /\ Len(entities) = Len(last.pre)
             /\ \A k \in 1..Len(entities) :
                    k # FirstHit => entities[k] = last.pre[k]
             /\ DOMAIN entities[FirstHit] = DOMAIN last.pre[FirstHit]
             /\ \A f \in {"alias", "type", "variations", "notes"} :
                    entities[FirstHit][f] =
                        IF last.kwargs[f] # None THEN last.kwargs[f][1]
                        ELSE last.pre[FirstHit][f]
             /\ entities[FirstHit].original = last.pre[FirstHit].original
             /\ entities[FirstHit].added = last.pre[FirstHit].added

\* C14, witness: a call that supplied a new alias and a new added time to
\* the first of two entities changed the alias and nothing else.
C14_Witness ==
    /\ last.op = "update_entity"
    /\ Len(last.pre) = 2
    /\ last.ret = TRUE
    /\ last.kwargs.alias # None
    /\ last.kwargs.added # None
    /\ last.kwargs.type = None
    /\ entities[1].alias = last.kwargs.alias[1]
    /\ entities[1].alias # last.pre[1].alias
    /\ entities[1].added = last.pre[1].added
    /\ entities[1].added # last.kwargs.added[1]
    /\ entities[2] = last.pre[2]

\* The entities of the store before the call whose original is the call's
\* name, case aside.
OriginalHits ==
    {i \in 1..Len(last.pre) : SameCI(last.pre[i].original, last.original)}

\* C15: remove_entity removes the first entity, in mapping order, whose
\* original equals the name case-insensitively and returns true, the other
\* entities staying in their order; it returns false and changes nothing
\* when no original matches, also when the name is a variation of an entity.
C15_RemoveFirstByOriginal ==
    last.op = "remove_entity" =>
        IF OriginalHits = {}
        THEN last.ret = FALSE /\ entities = last.pre
        ELSE LET m == CHOOSE i \in OriginalHits :
                          \A j \in OriginalHits : i <= j
             IN  /\ last.ret = TRUE
                 /\ Len(entities) = Len(last.pre) - 1
                 /\ \A k \in 1..Len(entities) :
                        entities[k] = IF k < m THEN last.pre[k]
                                      ELSE last.pre[k + 1]

\* C15, witness: of two entities whose originals differ by case alone the
\* first was removed and the second stayed.
C15_Witness ==
    /\ last.op = "remove_entity"
    /\ Len(last.pre) = 2
    /\ OriginalHits = {1, 2}
    /\ last.pre[1].original # last.pre[2].original
    /\ last.ret = TRUE
    /\ entities = <<last.pre[2]>>

----------------------------------------------------------------------------
(* Properties of import_csv.                                               *)

\* The rows of the import in last that are cut short before Variations.
FailingRows == {k \in 1..Len(last.rows) : last.rows[k].Variations = None}

\* The import of the first k rows of the file into the store before the
\* call.
ImportedUpTo(k) == import_csv(last.pre, SubSeq(last.rows, 1, k), last.overwrite)

\* The import of the rows after the k-th into the store ents.
ImportedAfter(ents, k) ==
    import_csv(ents, SubSeq(last.rows, k + 1, Len(last.rows)), last.overwrite)

\* C17: import_csv handles each row on its own: a failing row adds one
\* message to errors and the rows after it are handled as they would be
\* from the store it left, so that importing the file is importing its
\* first k rows and then the rest, for every k; added + skipped + the
\* number of errors is the number of rows; and with overwrite set a row
\* that does not fail leaves no entity with its original other than the
\* entity added from the row itself, at the end of the store.
C17_ImportRowsIndependently ==
    last.op = "import_csv" =>
        LET n == Len(last.rows)
        IN  /\ last.ret.added + last.ret.skipped + Len(last.ret.errors) = n
            /\ Len(last.ret.errors) = Cardinality(FailingRows)
            /\ \A k \in 0..n :
                  LET head == ImportedUpTo(k)
                      rest == ImportedAfter(head.entities, k)
                  IN  /\ entities = rest.entities
                      /\ last.ret.added = head.ret.added + rest.ret.added
                      /\ last.ret.skipped
                            = head.ret.skipped + rest.ret.skipped
                      /\ last.ret.errors
                            = head.ret.errors \o rest.ret.errors
                      /\ k \in FailingRows
                         => /\ head.entities = ImportedUpTo(k - 1).entities
                            /\ Len(head.ret.errors)
                                 = Len(ImportedUpTo(k - 1).ret.errors) + 1
            /\ (last.overwrite /\ n > 0 /\ n \notin FailingRows)
               => LET row == last.rows[n]
                      before == ImportedUpTo(n - 1)
                  IN  /\ \A i \in 1..Len(entities) :
                            SameCI(entities[i].original, row.Original[1])
                            => /\ i = Len(entities)
                               /\ entities[i]
                                    = Entity(row.Original[1], row.Alias[1],
                                             row.Type[1],
                                             parse_variations(
                                                 row.Variations[1]),
                                             row.Notes[1])
                               /\ last.ret.added = before.ret.added + 1
                      /\ (\E i \in 1..Len(before.entities) :
                             SameCI(before.entities[i].original,
                                    row.Original[1]))
                         => Len(entities) <= Len(before.entities)

\* C17, witness: a file whose first row failed and whose second row, with
\* overwrite set, replaced the entity that had its original.
C17_Witness ==
    /\ last.op = "import_csv"
    /\ last.overwrite
    /\ Len(last.rows) = 2
    /\ FailingRows = {1}
    /\ Len(last.ret.errors) = 1
    /\ last.ret.added = 1
    /\ Len(last.pre) = 1
    /\ SameCI(last.pre[1].original, last.rows[2].Original[1])
    /\ Len(entities) = 1
    /\ entities[1].alias = last.rows[2].Alias[1]
    /\ entities[1] # last.pre[1]

----------------------------------------------------------------------------
(* Properties of process_file, analyze_text and redact_with_random_ids.    *)

\* The entries of the log of one kind, in the log's order.
EntriesOfKind(kind) == SelectSeq(redaction_log, LAMBDA e : e.type = kind)

\* C18: process_file clears the log and the counters, then runs the entity
\* pass over the whole content, then the patterns over the text the entity
\* pass produced: the log afterwards is the entity pass's entries from an
\* empty log followed by the entries of the patterns applied, from clear
\* counters, to the entity pass's text, every entry of kind entity before
\* every entry of kind pattern; for a single pattern the originals logged
\* are the pattern's matches in the entity pass's text.
C18_EntitiesThenPatterns ==
    last.op = "process_file" =>
        LET ent == EntriesOfKind("entity")
            pat == EntriesOfKind("pattern")
            pass == redact_entities(mapping, <<>>, last.content, FALSE)
            applied == last.patterns # None /\ last.patterns[1] # <<>>
        IN  /\ redaction_log = ent \o pat
            /\ \A i, j \in 1..Len(redaction_log) :
                  (/\ redaction_log[i].type = "entity"
                   /\ redaction_log[j].type = "pattern") => i < j
            /\ ent = pass.log
            /\ last.entity_pass = pass.result
            /\ ~applied =>
                  /\ pat = <<>>
                  /\ last.output = last.entity_pass
                  /\ random_counter = <<>>
            /\ applied =>
                  LET p == redact_patterns(<<>>, <<>>, last.entity_pass,
                                           last.patterns, last.random_mode)
                  IN  /\ pat = p.log
                      /\ last.output = p.result
                      /\ random_counter = p.counter
            /\ (/\ applied
                /\ Len(last.patterns[1]) = 1
                /\ InPatterns(last.patterns[1][1])) =>
                  LET name == last.patterns[1][1]
                  IN  /\ [k \in 1..Len(pat) |-> pat[k].original]
                            = findall(PatternOf(name), last.entity_pass)
                      /\ last.random_mode =>
                            \A k \in 1..Len(pat) :
                                pat[k].replacement = Numbered(name, k)

\* C18, witness: with a log and counters left by earlier calls, the entity
\* pass turned a number into an email address, which the email pattern then
\* replaced by [EMAIL-001]; the log is the entity's entry, then the
\* pattern's.
C18_Witness ==
    /\ last.op = "process_file"
    /\ last.log # <<>>
    /\ CounterOf(last.counter, EmailName) >= 1
    /\ last.random_mode
    /\ last.patterns = Some(<<EmailName>>)
    /\ last.content = NumberWord
    /\ last.entity_pass = EmailWord
    /\ last.output = Numbered(EmailName, 1)
    /\ Len(redaction_log) = 2
    /\ redaction_log[1].type = "entity"
    /\ redaction_log[2].type = "pattern"
    /\ redaction_log[2].original = EmailWord

\* C19: analyze_text reads only: the log, the counters and the mapping
\* after the call are those before it, and total_matches is the sum of the
\* counts reported for the patterns.
C19_AnalyzeTextReadsOnly ==
    [][last'.op = "analyze_text" =>
          /\ redaction_log' = redaction_log
          /\ random_counter' = random_counter
          /\ mapping' = mapping
          /\ last'.ret.statistics.total_matches
                = SumOver([name \in DOMAIN last'.ret.patterns |->
                              last'.ret.patterns[name].count],
                          DOMAIN last'.ret.patterns)
      ]_vars

\* C19, witness: analyze_text, called with a log and counters left by
\* earlier calls, has counted the same email address twice and left them.
C19_Witness ==
    /\ last.op = "analyze_text"
    /\ last.text = EmailWord \o <<" ">> \o EmailWord
    /\ redaction_log # <<>>
    /\ CounterOf(random_counter, EmailName) >= 1
    /\ last.ret.patterns[EmailName].count = 2
    /\ last.ret.statistics.total_matches = 2

\* C20: redact_with_random_ids gives each distinct string of its list one
\* identifier, drawn when the string is first met and used again for every
\* later element equal to it: the mapping it returns has the distinct
\* strings of the list as its keys, and the entry logged for the k-th
\* element carries the identifier the returned mapping has for it; the
\* engine's mapping and counters, and the store, are left as they were.
C20_OneIdentifierPerString ==
    [][last'.op = "redact_with_random_ids" =>
          LET list == last'.entities
              document_mapping == last'.ret[2]
              new == AppendedByStep
          IN  /\ DOMAIN document_mapping = Range(list)
              /\ \A e \in Range(list) :
                    document_mapping[e]
                       \in {generate_random_id(last'.entity_type, r) :
                               r \in RandomParts}
              /\ Len(new) = Len(list)
              /\ \A k \in 1..Len(list) :
                    /\ new[k].type = "random"
                    /\ new[k].original = list[k]
                    /\ new[k].replacement = document_mapping[list[k]]
              /\ \A j, k \in 1..Len(list) :
                    list[j] = list[k]
                    => new[j].replacement = new[k].replacement
              /\ mapping' = mapping
              /\ random_counter' = random_counter
              /\ entities' = entities
      ]_vars

\* C20, witness: a list that names the same string twice got one key and
\* one identifier, in a call made with counters left by an earlier call.
C20_Witness ==
    /\ last.op = "redact_with_random_ids"
    /\ last.entities = <<NumberWord, NumberWord>>
    /\ last.text = NumberWord \o <<" ">> \o EmailWord
    /\ DOMAIN last.ret[2] = {NumberWord}
    /\ last.ret[1] = last.ret[2][NumberWord] \o <<" ">> \o EmailWord
    /\ Len(redaction_log) = Len(last.log) + 2
    /\ redaction_log[Len(redaction_log)].replacement
          = last.ret[2][NumberWord]
    /\ CounterOf(random_counter, EmailName) >= 1

----------------------------------------------------------------------------
(* Properties of the lookup by name and of what merge takes for a          *)
(* conflict.                                                               *)

\* C22: get_entity matches the name against originals first and only then
\* against variations: whenever the original of some entity equals the
\* name case-insensitively, the entity returned has an original equal to
\* the name, even if an earlier entity lists the name as a variation.
C22_OriginalsBeforeVariations ==
    (/\ last.op = "get_entity"
     /\ \E i \in 1..Len(last.pre) :
            SameCI(last.pre[i].original, last.original))
    => /\ last.ret # 0
       /\ SameCI(last.pre[last.ret].original, last.original)

\* An existing entity is removed from the store before the k-th incoming
\* entity, and the incoming entity is or is not appended to what is left.
OneRemoved(k) ==
    \E i \in 1..Len(MergeBefore(k)) :
        LET rest == DeleteAt(MergeBefore(k), i)
        IN  \/ last.trace[k].entities = rest
            \/ last.trace[k].entities = Append(rest, last.other[k])

\* C23: merge takes an incoming entity for a conflict exactly when an
\* existing entity has its original, case aside: an incoming entity whose
\* original is only a variation of an existing entity is counted under
\* added, one with the original of an existing entity is counted under
\* skipped or overwritten by the strategy, and under overwrite such a
\* conflict removes exactly one existing entity before the insertion.
C23_ConflictIffSameOriginal ==
    last.op = "merge" =>
        \A k \in 1..Len(last.other) :
            IF MergeConflict(k)
            THEN IF last.conflict_strategy = "overwrite"
                 THEN /\ last.trace[k].ret =
                            [MergeCountBefore(k) EXCEPT !.overwritten = @ + 1]
                      /\ OneRemoved(k)
                 ELSE last.trace[k].ret =
                            [MergeCountBefore(k) EXCEPT !.skipped = @ + 1]
            ELSE last.trace[k].ret =
                    [MergeCountBefore(k) EXCEPT !.added = @ + 1]

----------------------------------------------------------------------------
(* Properties of the redaction log.                                        *)

\* What the entries a step appends account for in the length of the text:
\* each entry stands for one replacement of its original.
LengthChange ==
    SumOver([k \in 1..Len(AppendedByStep) |->
                Len(AppendedByStep[k].replacement)
                    - Len(AppendedByStep[k].original)],
            1..Len(AppendedByStep))

----------------------------------------------------------------------------
(* Properties claimed of import_csv with overwrite and of the completeness *)
(* of redact_entities.                                                     *)

\* The store holds an entity with this original, case aside.
HasOriginal(ents, original) ==
    \E i \in 1..Len(ents) : SameCI(ents[i].original, original)

\* C26: import_csv with overwrite set never loses an entity: for every row
\* whose original was that of an entity of the store before the row, the
\* store holds an entity with that original after the row, whether the row
\* was counted as added or as skipped.
C26_OverwriteKeepsOriginal ==
    (last.op = "import_csv" /\ last.overwrite) =>
        \A k \in 1..Len(last.rows) :
            HasOriginal(ImportedUpTo(k - 1).entities,
                        last.rows[k].Original[1])
            => HasOriginal(ImportedUpTo(k).entities,
                           last.rows[k].Original[1])

\* The non-empty terms of a mapping: originals and variations.
TermsOf(ents) ==
    {t \in UNION {{ents[i].original} \cup Range(ents[i].variations) :
                     i \in 1..Len(ents)} : t # <<>>}

\* The originals of the mapping are distinct and not empty, and so are its
\* aliases.
UniqueAndNonEmpty(ents) ==
    /\ \A i \in 1..Len(ents) :
          ents[i].original # <<>> /\ ents[i].alias # <<>>
    /\ \A i, j \in 1..Len(ents) :
          i # j => /\ ~SameCI(ents[i].original, ents[j].original)
                   /\ ~SameCI(ents[i].alias, ents[j].alias)

\* C27: redaction is complete: with a mapping whose originals and aliases
\* are unique and not empty, the text redact_entities returns in
\* case-insensitive mode holds no whole-word occurrence of the original or
\* of a variation of any entity.
C27_NoTermLeft ==
    (/\ last.op = "redact_entities"
     /\ ~last.case_sensitive
     /\ UniqueAndNonEmpty(mapping)) =>
        \A t \in TermsOf(mapping) : Occurrences(last.ret, t, FALSE) = {}

----------------------------------------------------------------------------
(* Properties of persistence.                                              *)

\* The path a save writes to: the argument, or else the manager's file.
Target == IF last.path # None THEN last.path ELSE mapping_file

\* C21: save() without a path on a manager constructed without a mapping
\* file raises and stops: no file is written and the document in memory,
\* its updated timestamp included, is as before; every save that writes
\* sets updated to the time of the call before it writes, so that the
\* document written carries it.
C21_SaveWithoutPathAborts ==
    last.op = "save" =>
        /\ (last.path = None /\ mapping_file = None) =>
              /\ last.ret = "ValueError"
              /\ files = last.files
              /\ updated = last.updated
              /\ entities = last.entities
        /\ files # last.files =>
              /\ Target # None
              /\ updated = last.now
              /\ files = [last.files EXCEPT ![Target[1]] =
                            Written(Document(last.now, last.entities))]
        /\ last.ret = "None" =>
              /\ updated = last.now
              /\ files[Target[1]] = Written(Document(last.now, entities))
        /\ entities = last.entities

\* C21, witness: a manager without a mapping file, holding an entity and a
\* timestamp older than the clock, was saved without a path: the call
\* raised, and disk, timestamp and entities are as they were.
C21_Witness ==
    /\ last.op = "save"
    /\ mapping_file = None
    /\ last.path = None
    /\ last.ret = "ValueError"
    /\ entities # <<>>
    /\ updated < clock
    /\ updated = last.updated
    /\ files = last.files

\* Both callers have finished and were told that their add succeeded.
BothSucceeded ==
    \A c \in Callers : callers[c].pc = "done" /\ callers[c].success

\* The callers' entities that the persisted document holds.
Persisted ==
    {c \in Callers :
        /\ files["m.json"].exists
        /\ files["m.json"].json
        /\ \E i \in 1..Len(files["m.json"].document.entities) :
              files["m.json"].document.entities[i] = CallerEntity(c)}

\* C24: persistence reads and rewrites the whole document without a lock,
\* and concurrent writers lose updates: when both callers have loaded the
\* same mapping file, have each added their entity and saved, and both were
\* told of success, the persisted document is the document one of them
\* loaded with that caller's entity alone appended: it holds one of the two
\* added entities.
C24_ConcurrentSaveLosesUpdate ==
    (/\ BothSucceeded
     /\ callers[1].read = callers[2].read) =>
        /\ Cardinality(Persisted) = 1
        /\ \E c \in Callers :
              /\ files["m.json"] = Written(callers[c].mapping[1])
              /\ callers[c].mapping[1].entities =
                    Append(IF callers[c].read[1].exists
                           THEN callers[c].read[1].document.entities
                           ELSE empty_mapping,
                           CallerEntity(c))

\* C24, witness: both callers loaded the file saved at time 0, both added
\* and saved and were told of success, and the file holds the second
\* caller's entity and not the first's.
C24_Witness ==
    /\ BothSucceeded
    /\ callers[1].read = callers[2].read
    /\ callers[1].read # None
    /\ callers[1].read[1].exists
    /\ Persisted = {2}
    /\ Len(files["m.json"].document.entities) = 2

============================================================================
